---- MODULE Spec2Model ----
(***************************************************************************)
(* A model of the cborg CBOR codec: the decoder (src/lib.rs), the encoder  *)
(* and the Value model (src/value/types.rs) and the conversion layer       *)
(* (src/value/mod.rs).                                                     *)
(*                                                                         *)
(* 64-bit machine integers (u64, i64, usize, f64 bit patterns) are kept as *)
(* their eight bytes, most significant first, so that every width, shift   *)
(* and cast of the code is exact.  An i64 is its two's complement pattern. *)
(* A String is the sequence of its UTF-8 bytes.                            *)
(***************************************************************************)
EXTENDS Integers, Sequences, FiniteSets, TLC

VARIABLES stage, origin, value, native, wire, result, target, conv, convRef, extra, again,
          header, rhs, cmp, hmap

vars == <<stage, origin, value, native, wire, result, target, conv, convRef, extra, again,
          header, rhs, cmp, hmap>>

-----------------------------------------------------------------------------
(* Bounds of the model.                                                    *)

\* longest Array / Map built from the nesting leaves
MaxLen == 2
\* longest raw byte sequence fed to the decoder
MaxWire == 3

-----------------------------------------------------------------------------
(* 64-bit words as eight big-endian bytes.                                 *)

\* the u64 (or non-negative i64, usize) whose value is n, for 0 <= n < 2^31
U64(n) ==
    <<0, 0, 0, 0, (n \div 16777216) % 256, (n \div 65536) % 256, (n \div 256) % 256, n % 256>>

RECURSIVE LexLt(_, _)
LexLt(a, b) ==
    IF a = <<>> THEN FALSE
    ELSE IF Head(a) # Head(b) THEN Head(a) < Head(b)
    ELSE LexLt(Tail(a), Tail(b))

\* a < b, a <= b on u64
ULt(a, b) == LexLt(a, b)
ULe(a, b) == a = b \/ LexLt(a, b)

\* the sign bit of an i64
IsNeg(x) == x[1] >= 128

\* a < b on i64 (two's complement)
ILt(a, b) ==
    IF IsNeg(a) # IsNeg(b) THEN IsNeg(a) ELSE LexLt(a, b)
ILe(a, b) == a = b \/ ILt(a, b)

\* -1 - x on i64: never overflows, and flips every bit of the pattern
MinusOneMinus(x) == [i \in 1..8 |-> 255 - x[i]]

\* value <<= 8; value |= u64::from(byte)
ShiftIn(x, byte) == Tail(x) \o <<byte>>

\* the i64 whose value is -n, for 0 < n < 2^31
I64Neg(n) == MinusOneMinus(U64(n - 1))

U64_MAX == <<255, 255, 255, 255, 255, 255, 255, 255>>
U32_MAX == <<0, 0, 0, 0, 255, 255, 255, 255>>
U16_MAX == <<0, 0, 0, 0, 0, 0, 255, 255>>
I64_MAX == <<127, 255, 255, 255, 255, 255, 255, 255>>
I64_MIN == <<128, 0, 0, 0, 0, 0, 0, 0>>
I32_MAX == <<0, 0, 0, 0, 127, 255, 255, 255>>
I32_MIN == <<255, 255, 255, 255, 128, 0, 0, 0>>
TwoPow32 == <<0, 0, 0, 1, 0, 0, 0, 0>>
I64_MIN_PLUS_1 == <<128, 0, 0, 0, 0, 0, 0, 1>>

-----------------------------------------------------------------------------
(* The Value model: src/value/types.rs.                                    *)

SimpleFalse == [s |-> "False"]
SimpleTrue == [s |-> "True"]
SimpleNull == [s |-> "Null"]
SimpleUndefined == [s |-> "Undefined"]
Unassigned(x) == [s |-> "Unassigned", code |-> x]

Unsigned(x) == [t |-> "Unsigned", u |-> x]
Negative(x) == [t |-> "Negative", i |-> x]
ByteString(b) == [t |-> "ByteString", bytes |-> b]
Utf8String(s) == [t |-> "Utf8String", str |-> s]
Array(a) == [t |-> "Array", arr |-> a]
Map(m) == [t |-> "Map", map |-> m]
Float(bits) == [t |-> "Float", f |-> bits]
Simple(x) == [t |-> "Simple", simple |-> x]

KeyVal(k, v) == [key |-> k, val |-> v]

major(v) ==
    CASE v.t = "Unsigned" -> 0
      [] v.t = "Negative" -> 1
      [] v.t = "ByteString" -> 2
      [] v.t = "Utf8String" -> 3
      [] v.t = "Array" -> 4
      [] v.t = "Map" -> 5
      [] v.t = "Float" -> 7
      [] v.t = "Simple" -> 7

\* f64 == f64: a NaN equals nothing, 0.0 equals -0.0
IsNaN(x) ==
    /\ x[1] % 128 = 127
    /\ x[2] >= 240
    /\ (x[2] % 16 # 0 \/ \E j \in 3..8 : x[j] # 0)

IsZero(x) == x[1] % 128 = 0 /\ \A j \in 2..8 : x[j] = 0

F64Eq(x, y) ==
    IF IsNaN(x) \/ IsNaN(y) THEN FALSE
    ELSE IF IsZero(x) /\ IsZero(y) THEN TRUE
    ELSE x = y

\* impl PartialEq for Value (and the derived one of KeyVal and Simple)
RECURSIVE value_eq(_, _)
value_eq(a, b) ==
    IF major(a) # major(b) THEN FALSE
    ELSE CASE a.t = "Unsigned" /\ b.t = "Unsigned" -> a.u = b.u
           [] a.t = "Negative" /\ b.t = "Negative" -> a.i = b.i
           [] a.t = "ByteString" /\ b.t = "ByteString" -> a.bytes = b.bytes
           [] a.t = "Utf8String" /\ b.t = "Utf8String" -> a.str = b.str
           [] a.t = "Array" /\ b.t = "Array" ->
                 /\ Len(a.arr) = Len(b.arr)
                 /\ \A j \in 1..Len(a.arr) : value_eq(a.arr[j], b.arr[j])
           [] a.t = "Map" /\ b.t = "Map" ->
                 /\ Len(a.map) = Len(b.map)
                 /\ \A j \in 1..Len(a.map) :
                       /\ value_eq(a.map[j].key, b.map[j].key)
                       /\ value_eq(a.map[j].val, b.map[j].val)
           [] a.t = "Float" /\ b.t = "Float" -> F64Eq(a.f, b.f)
           [] a.t = "Simple" /\ b.t = "Simple" -> a.simple = b.simple
           [] OTHER -> FALSE

(* impl Hash for Value. The hash of a Value is modelled by the data it      *)
(* feeds to the hasher, the bytes of all its writes in order: a u64, i64,   *)
(* usize or isize is written as its eight bytes, a u8 as one byte.          *)

\* #[derive(Hash)] for Simple: the discriminant (an isize), then the field
Simple_hash(x) ==
    CASE x.s = "False" -> U64(0)
      [] x.s = "True" -> U64(1)
      [] x.s = "Null" -> U64(2)
      [] x.s = "Undefined" -> U64(3)
      [] x.s = "Unassigned" -> U64(4) \o <<x.code>>

RECURSIVE hash(_)
RECURSIVE HashItems(_)
RECURSIVE HashPairs(_)

\* Hash::hash_slice: for piece in data { piece.hash(state) }
HashItems(items) ==
    IF items = <<>> THEN <<>> ELSE hash(Head(items)) \o HashItems(Tail(items))

\* for kv in x { kv.key.hash(state); kv.val.hash(state) }
HashPairs(pairs) ==
    IF pairs = <<>> THEN <<>>
    ELSE hash(Head(pairs).key) \o hash(Head(pairs).val) \o HashPairs(Tail(pairs))

\* fn hash: a Vec<u8> and a Vec<Value> write their length before their elements,
\* a String writes its bytes and 0xFF, a Float writes its bit pattern
hash(v) ==
    CASE v.t = "Unsigned" -> v.u
      [] v.t = "Negative" -> v.i
      [] v.t = "ByteString" -> U64(Len(v.bytes)) \o v.bytes
      [] v.t = "Utf8String" -> v.str \o <<255>>
      [] v.t = "Array" -> U64(Len(v.arr)) \o HashItems(v.arr)
      [] v.t = "Map" -> HashPairs(v.map)
      [] v.t = "Float" -> v.f
      [] v.t = "Simple" -> Simple_hash(v.simple)

-----------------------------------------------------------------------------
(* The encoder: src/value/types.rs.                                        *)

\* a Simple::encode that gives the reserved codes the two-byte form as well
Simple_encode_Extended(x) ==
    LET mj == 7 * 32 IN
    CASE x.s = "False" -> <<mj + 20>>
      [] x.s = "True" -> <<mj + 21>>
      [] x.s = "Null" -> <<mj + 22>>
      [] x.s = "Undefined" -> <<mj + 23>>
      [] x.s = "Unassigned" ->
            IF x.code < 20 THEN <<mj + x.code>> ELSE <<mj + 24, x.code>>

Simple_encode(x) ==
    LET mj == 7 * 32 IN
    CASE x.s = "False" -> <<mj + 20>>
      [] x.s = "True" -> <<mj + 21>>
      [] x.s = "Null" -> <<mj + 22>>
      [] x.s = "Undefined" -> <<mj + 23>>
      [] x.s = "Unassigned" ->
            IF x.code < 20 THEN <<mj + x.code>>
            ELSE IF x.code > 31 THEN <<mj + 24>>
            ELSE <<>>

\* the bytes pushed for x: u64 under major type mj
encode_compact_uint(x, mj) ==
    LET b == mj * 32 IN
    IF ULe(x, U64(23)) THEN <<b + x[8]>>
    ELSE IF ULt(x, U64(255)) THEN <<b + 24>> \o SubSeq(x, 8, 8)
    ELSE IF ULt(x, U16_MAX) THEN <<b + 25>> \o SubSeq(x, 7, 8)
    ELSE IF ULt(x, U32_MAX) THEN <<b + 26>> \o SubSeq(x, 5, 8)
    ELSE <<b + 27>> \o x

\* the bytes pushed for a length len: usize under major type item_code
push_major_and_len(len, item_code) ==
    LET b == item_code * 32 IN
    IF ULe(len, U64(23)) THEN <<b + len[8]>>
    ELSE IF ULe(len, U64(255)) THEN <<b + 24, len[8]>>
    ELSE IF ULe(len, U16_MAX) THEN <<b + 25, len[7], len[8]>>
    ELSE IF ULe(len, U32_MAX) THEN <<b + 26, len[6], len[7], len[8]>>
    ELSE <<b + 27, len[5], len[6], len[7], len[8]>>

add_bytes(x, item_code) == push_major_and_len(U64(Len(x)), item_code) \o x

RECURSIVE encode_compact(_)
RECURSIVE EncodeItems(_)
RECURSIVE EncodePairs(_)

\* for item in x { bytes.append(item.encode_compact()) }
EncodeItems(x) ==
    IF x = <<>> THEN <<>>
    ELSE encode_compact(Head(x)) \o EncodeItems(Tail(x))

\* for kv in x { append key, append val }
EncodePairs(x) ==
    IF x = <<>> THEN <<>>
    ELSE encode_compact(Head(x).key) \o encode_compact(Head(x).val) \o EncodePairs(Tail(x))

encode_compact(v) ==
    CASE v.t = "Unsigned" -> encode_compact_uint(v.u, 0)
      [] v.t = "Negative" -> encode_compact_uint(MinusOneMinus(v.i), 1)
      [] v.t = "ByteString" -> add_bytes(v.bytes, 2)
      [] v.t = "Utf8String" -> add_bytes(v.str, 3)
      [] v.t = "Array" -> push_major_and_len(U64(Len(v.arr)), 4) \o EncodeItems(v.arr)
      [] v.t = "Map" -> push_major_and_len(U64(Len(v.map)), 5) \o EncodePairs(v.map)
      [] v.t = "Float" -> <<7 * 32 + 27>> \o v.f
      [] v.t = "Simple" -> Simple_encode(v.simple)

encode(v) == encode_compact(v)

-----------------------------------------------------------------------------
(* The decoder: src/lib.rs.  The byte iterator is the pair (bytes, pos):   *)
(* pos is the index of the next byte iter.next() yields, and the iterator  *)
(* is exhausted when pos > Len(bytes).  Every parse step returns its       *)
(* outcome together with the position it leaves the iterator at.  A panic  *)
(* of the code is the outcome of kind "Abort".                             *)

None == [opt |-> "None"]
Some(x) == [opt |-> "Some", some |-> x]

OkAt(x, p) == [ok |-> TRUE, val |-> x, pos |-> p]
ErrAt(k, p) == [ok |-> FALSE, kind |-> k, pos |-> p]
PanicAt(p) == [ok |-> FALSE, kind |-> "Abort", pos |-> p]

read_type(b) == [major |-> b \div 32, minor |-> b % 32]

\* for _ in 0..n { value <<= 8; value |= next byte }
RECURSIVE ReadBigEndian(_, _, _, _)
ReadBigEndian(bytes, pos, n, acc) ==
    IF n = 0 THEN OkAt(acc, pos)
    ELSE IF pos > Len(bytes) THEN ErrAt("InsufficientBytes", pos)
    ELSE ReadBigEndian(bytes, pos + 1, n - 1, ShiftIn(acc, bytes[pos]))

parse_unsigned_int(minor, bytes, pos) ==
    IF minor < 1 \/ minor > 27 THEN ErrAt("UnexpectedValue", pos)
    ELSE IF minor = 27 THEN ReadBigEndian(bytes, pos, 8, U64(0))
    ELSE IF minor = 26 THEN ReadBigEndian(bytes, pos, 4, U64(0))
    ELSE IF minor = 25 THEN ReadBigEndian(bytes, pos, 2, U64(0))
    ELSE IF minor = 24 THEN ReadBigEndian(bytes, pos, 1, U64(0))
    ELSE OkAt(U64(minor), pos)

parse_negative_int(minor, bytes, pos) ==
    LET r == parse_unsigned_int(minor, bytes, pos) IN
    IF ~r.ok THEN r ELSE OkAt(MinusOneMinus(r.val), r.pos)

\* for _ in 0..length { binary_val.push(next byte) }, i iterations done
RECURSIVE ReadPayload(_, _, _, _, _)
ReadPayload(bytes, pos, length, i, acc) ==
    IF ~ULt(U64(i), length) THEN OkAt(acc, pos)
    ELSE IF pos > Len(bytes) THEN ErrAt("InsufficientBytes", pos)
    ELSE ReadPayload(bytes, pos + 1, length, i + 1, Append(acc, bytes[pos]))

\* the loop over the chunks of an indefinite-length string
RECURSIVE ReadChunks(_, _, _)
ReadChunks(bytes, pos, acc) ==
    IF pos > Len(bytes) THEN ErrAt("InsufficientBytes", pos)
    ELSE IF bytes[pos] = 255 THEN OkAt(acc, pos + 1)
    ELSE LET len == parse_unsigned_int(read_type(bytes[pos]).minor, bytes, pos + 1) IN
         IF ~len.ok THEN len
         ELSE LET r == ReadPayload(bytes, len.pos, len.val, 0, acc) IN
              IF ~r.ok THEN r ELSE ReadChunks(bytes, r.pos, r.val)

parse_byte_string(minor, bytes, pos) ==
    IF minor = 31 THEN ReadChunks(bytes, pos, <<>>)
    ELSE LET len == parse_unsigned_int(minor, bytes, pos) IN
         IF ~len.ok THEN len ELSE ReadPayload(bytes, len.pos, len.val, 0, <<>>)

IsCont(b) == 128 <= b /\ b <= 191

\* String::from_utf8(b).is_ok()
RECURSIVE ValidUtf8(_)
ValidUtf8(b) ==
    IF b = <<>> THEN TRUE
    ELSE LET b1 == b[1]
             n == Len(b)
         IN
         IF b1 < 128 THEN ValidUtf8(Tail(b))
         ELSE IF 194 <= b1 /\ b1 <= 223
              THEN n >= 2 /\ IsCont(b[2]) /\ ValidUtf8(SubSeq(b, 3, n))
         ELSE IF 224 <= b1 /\ b1 <= 239
              THEN /\ n >= 3
                   /\ IsCont(b[2])
                   /\ IsCont(b[3])
                   /\ (b1 = 224 => b[2] >= 160)
                   /\ (b1 = 237 => b[2] <= 159)
                   /\ ValidUtf8(SubSeq(b, 4, n))
         ELSE IF 240 <= b1 /\ b1 <= 244
              THEN /\ n >= 4
                   /\ IsCont(b[2])
                   /\ IsCont(b[3])
                   /\ IsCont(b[4])
                   /\ (b1 = 240 => b[2] >= 144)
                   /\ (b1 = 244 => b[2] <= 143)
                   /\ ValidUtf8(SubSeq(b, 5, n))
         ELSE FALSE

parse_utf8_string(minor, bytes, pos) ==
    LET r == parse_byte_string(minor, bytes, pos) IN
    IF ~r.ok THEN r
    ELSE IF ValidUtf8(r.val) THEN OkAt(r.val, r.pos)
    ELSE PanicAt(r.pos)

parse_float(minor, bytes, pos) ==
    IF minor < 25 \/ minor > 27 THEN PanicAt(pos)
    ELSE IF minor = 27 THEN ReadBigEndian(bytes, pos, 8, U64(0))
    ELSE IF minor = 26 THEN ReadBigEndian(bytes, pos, 4, U64(0))
    ELSE ReadBigEndian(bytes, pos, 2, U64(0))

\* a parse_simple whose two-byte form takes any following byte
parse_simple_AnyByte(minor, bytes, pos) ==
    IF minor <= 19 THEN OkAt(Unassigned(minor), pos)
    ELSE IF minor = 20 THEN OkAt(SimpleFalse, pos)
    ELSE IF minor = 21 THEN OkAt(SimpleTrue, pos)
    ELSE IF minor = 22 THEN OkAt(SimpleNull, pos)
    ELSE IF minor = 23 THEN OkAt(SimpleUndefined, pos)
    ELSE IF minor = 24
         THEN IF pos > Len(bytes) THEN ErrAt("InsufficientBytes", pos)
              ELSE OkAt(Unassigned(bytes[pos]), pos + 1)
    ELSE ErrAt("InsufficientBytes", pos)

parse_simple(minor, bytes, pos) ==
    IF minor <= 19 THEN OkAt(Unassigned(minor), pos)
    ELSE IF minor = 20 THEN OkAt(SimpleFalse, pos)
    ELSE IF minor = 21 THEN OkAt(SimpleTrue, pos)
    ELSE IF minor = 22 THEN OkAt(SimpleNull, pos)
    ELSE IF minor = 23 THEN OkAt(SimpleUndefined, pos)
    ELSE IF minor = 24
         THEN IF pos > Len(bytes) THEN ErrAt("InsufficientBytes", pos)
              ELSE IF bytes[pos] >= 32 THEN OkAt(Unassigned(bytes[pos]), pos + 1)
              ELSE ErrAt("UnexpectedValue", pos + 1)
    ELSE ErrAt("InsufficientBytes", pos)

RECURSIVE parse_value(_, _, _)
RECURSIVE decode_next(_, _)
RECURSIVE decode_element(_, _)
RECURSIVE ArrayIndefinite(_, _, _)
RECURSIVE ArrayDefinite(_, _, _, _, _)
RECURSIVE MapIndefinite(_, _, _)
RECURSIVE MapDefinite(_, _, _, _, _)

\* while let Some(item) = decode_next(iter)? { arr.push(item) }
ArrayIndefinite(bytes, pos, arr) ==
    LET r == decode_next(bytes, pos) IN
    IF ~r.ok THEN r
    ELSE IF r.val = None THEN OkAt(arr, r.pos)
    ELSE ArrayIndefinite(bytes, r.pos, Append(arr, r.val.some))

\* for _ in 0..length { arr.push(decode_element(iter)?) }, i iterations done
ArrayDefinite(bytes, pos, length, i, arr) ==
    IF ~ULt(U64(i), length) THEN OkAt(arr, pos)
    ELSE LET r == decode_element(bytes, pos) IN
         IF ~r.ok THEN r
         ELSE ArrayDefinite(bytes, r.pos, length, i + 1, Append(arr, r.val))

parse_array(minor, bytes, pos) ==
    IF minor = 31 THEN ArrayIndefinite(bytes, pos, <<>>)
    ELSE LET len == parse_unsigned_int(minor, bytes, pos) IN
         IF ~len.ok THEN len ELSE ArrayDefinite(bytes, len.pos, len.val, 0, <<>>)

\* while let Some(key) = decode_next(iter)? { val = decode_element(iter)?; push }
MapIndefinite(bytes, pos, map) ==
    LET k == decode_next(bytes, pos) IN
    IF ~k.ok THEN k
    ELSE IF k.val = None THEN OkAt(map, k.pos)
    ELSE LET v == decode_element(bytes, k.pos) IN
         IF ~v.ok THEN v
         ELSE MapIndefinite(bytes, v.pos, Append(map, KeyVal(k.val.some, v.val)))

\* for _ in 0..length { key, val = decode_element(iter)?; push }, i iterations done
MapDefinite(bytes, pos, length, i, map) ==
    IF ~ULt(U64(i), length) THEN OkAt(map, pos)
    ELSE LET k == decode_element(bytes, pos) IN
         IF ~k.ok THEN k
         ELSE LET v == decode_element(bytes, k.pos) IN
              IF ~v.ok THEN v
              ELSE MapDefinite(bytes, v.pos, length, i + 1, Append(map, KeyVal(k.val, v.val)))

parse_map(minor, bytes, pos) ==
    IF minor = 31 THEN MapIndefinite(bytes, pos, <<>>)
    ELSE LET len == parse_unsigned_int(minor, bytes, pos) IN
         IF ~len.ok THEN len ELSE MapDefinite(bytes, len.pos, len.val, 0, <<>>)

\* wrap the payload of a successful parse step in its Value variant
Wrap(r, Variant(_)) == IF ~r.ok THEN r ELSE OkAt(Variant(r.val), r.pos)

\* a parse_value that reads the tag number as an unsigned integer before the
\* tagged item
parse_value_ReadTagNumber(bytes, pos, type_byte) ==
    LET mj == read_type(type_byte).major
        minor == read_type(type_byte).minor
    IN
    IF mj = 6
    THEN LET tag == parse_unsigned_int(minor, bytes, pos) IN
         IF ~tag.ok THEN tag ELSE decode_element(bytes, tag.pos)
    ELSE CASE mj = 0 -> Wrap(parse_unsigned_int(minor, bytes, pos), Unsigned)
           [] mj = 1 -> Wrap(parse_negative_int(minor, bytes, pos), Negative)
           [] mj = 2 -> Wrap(parse_byte_string(minor, bytes, pos), ByteString)
           [] mj = 3 -> Wrap(parse_utf8_string(minor, bytes, pos), Utf8String)
           [] mj = 4 -> Wrap(parse_array(minor, bytes, pos), Array)
           [] mj = 5 -> Wrap(parse_map(minor, bytes, pos), Map)
           [] mj = 7 ->
                 IF minor <= 24 THEN Wrap(parse_simple(minor, bytes, pos), Simple)
                 ELSE Wrap(parse_float(minor, bytes, pos), Float)
           [] OTHER -> ErrAt("UnexpectedValue", pos)

parse_value(bytes, pos, type_byte) ==
    LET mj == read_type(type_byte).major
        minor == read_type(type_byte).minor
    IN
    CASE mj = 0 -> Wrap(parse_unsigned_int(minor, bytes, pos), Unsigned)
      [] mj = 1 -> Wrap(parse_negative_int(minor, bytes, pos), Negative)
      [] mj = 2 -> Wrap(parse_byte_string(minor, bytes, pos), ByteString)
      [] mj = 3 -> Wrap(parse_utf8_string(minor, bytes, pos), Utf8String)
      [] mj = 4 -> Wrap(parse_array(minor, bytes, pos), Array)
      [] mj = 5 -> Wrap(parse_map(minor, bytes, pos), Map)
      [] mj = 6 ->
            IF pos > Len(bytes) THEN ErrAt("InsufficientBytes", pos)
            ELSE parse_value(bytes, pos + 1, bytes[pos])
      [] mj = 7 ->
            IF minor <= 24 THEN Wrap(parse_simple(minor, bytes, pos), Simple)
            ELSE Wrap(parse_float(minor, bytes, pos), Float)
      [] OTHER -> ErrAt("UnexpectedValue", pos)

decode_next(bytes, pos) ==
    IF pos > Len(bytes) THEN ErrAt("InsufficientBytes", pos)
    ELSE IF bytes[pos] = 255 THEN OkAt(None, pos + 1)
    ELSE Wrap(parse_value(bytes, pos + 1, bytes[pos]), Some)

decode_element(bytes, pos) ==
    IF pos > Len(bytes) THEN ErrAt("InsufficientBytes", pos)
    ELSE parse_value(bytes, pos + 1, bytes[pos])

decode_iter(bytes, pos) ==
    IF pos > Len(bytes) THEN ErrAt("InsufficientBytes", pos)
    ELSE parse_value(bytes, pos + 1, bytes[pos])

\* a decode that insists on the end of the stream after the value
decode_RequireEnd(stream) ==
    LET r == decode_iter(stream, 1) IN
    IF r.ok /\ r.pos <= Len(stream) THEN ErrAt("UnexpectedValue", r.pos) ELSE r

decode(stream) == decode_iter(stream, 1)

-----------------------------------------------------------------------------
(* The conversion layer: src/value/mod.rs.                                 *)
(*                                                                         *)
(* A target type is a descriptor record.  A native integer is its 64-bit   *)
(* pattern (sign-extended), a String its bytes, an f64 its bit pattern, a  *)
(* Vec a sequence, a pair a 2-tuple, and a HashMap or BTreeMap the         *)
(* function from its keys to its values.                                   *)

Ty(name) == [k |-> name]
VecU8 == [k |-> "VecU8"]
VecOf(T) == [k |-> "Vec", elem |-> T]
HashMapOf(K, V) == [k |-> "HashMap", key |-> K, val |-> V]
BTreeMapOf(K, V) == [k |-> "BTreeMap", key |-> K, val |-> V]
PairOf(K, V) == [k |-> "Pair", key |-> K, val |-> V]

IntTypes == {"u8", "u32", "u64", "usize", "i8", "i32", "i64", "isize"}

I8_MIN == <<255, 255, 255, 255, 255, 255, 255, 128>>

\* W::try_from(x: u64).is_ok()
TryFromU64(W, x) ==
    CASE W = "u8" -> ULe(x, U64(255))
      [] W = "u32" -> ULe(x, U32_MAX)
      [] W \in {"u64", "usize"} -> TRUE
      [] W = "i8" -> ULe(x, U64(127))
      [] W = "i32" -> ULe(x, I32_MAX)
      [] W \in {"i64", "isize"} -> ULe(x, I64_MAX)

\* W::try_from(x: i64).is_ok()
TryFromI64(W, x) ==
    CASE W = "u8" -> ~IsNeg(x) /\ ULe(x, U64(255))
      [] W = "u32" -> ~IsNeg(x) /\ ULe(x, U32_MAX)
      [] W \in {"u64", "usize"} -> ~IsNeg(x)
      [] W = "i8" -> ILe(I8_MIN, x) /\ ILe(x, U64(127))
      [] W = "i32" -> ILe(I32_MIN, x) /\ ILe(x, I32_MAX)
      [] W \in {"i64", "isize"} -> TRUE

\* impl TryFrom<Value> for u8, as an Option
u8_try_from(v) ==
    CASE v.t = "Unsigned" -> IF TryFromU64("u8", v.u) THEN Some(v.u) ELSE None
      [] v.t = "Negative" -> IF TryFromI64("u8", v.i) THEN Some(v.i) ELSE None
      [] OTHER -> None

\* impl TryFrom<&Value> for u8, as an Option
u8_try_from_ref(v) ==
    CASE v.t = "Unsigned" -> IF TryFromU64("u8", v.u) THEN Some(v.u) ELSE None
      [] v.t = "Negative" -> IF TryFromI64("u8", v.i) THEN Some(v.i) ELSE None
      [] OTHER -> None

\* x + 1 on a 64-bit pattern, wrapping
RECURSIVE Inc(_)
Inc(x) ==
    IF x = <<>> THEN <<>>
    ELSE IF x[Len(x)] < 255 THEN SubSeq(x, 1, Len(x) - 1) \o <<x[Len(x)] + 1>>
    ELSE Inc(SubSeq(x, 1, Len(x) - 1)) \o <<0>>

ByteBits(b) ==
    <<(b \div 128) % 2, (b \div 64) % 2, (b \div 32) % 2, (b \div 16) % 2,
      (b \div 8) % 2, (b \div 4) % 2, (b \div 2) % 2, b % 2>>

RECURSIVE Bits(_)
Bits(x) == IF x = <<>> THEN <<>> ELSE ByteBits(Head(x)) \o Bits(Tail(x))

RECURSIVE Bytes(_)
Bytes(bits) ==
    IF bits = <<>> THEN <<>>
    ELSE <<128 * bits[1] + 64 * bits[2] + 32 * bits[3] + 16 * bits[4]
           + 8 * bits[5] + 4 * bits[6] + 2 * bits[7] + bits[8]>>
         \o Bytes(SubSeq(bits, 9, Len(bits)))

\* bits + 1 on a bit string, wrapping
RECURSIVE IncBits(_)
IncBits(bits) ==
    IF bits = <<>> THEN <<>>
    ELSE IF bits[Len(bits)] = 0 THEN SubSeq(bits, 1, Len(bits) - 1) \o <<1>>
    ELSE IncBits(SubSeq(bits, 1, Len(bits) - 1)) \o <<0>>

\* the 11-bit biased exponent field of an f64
ExpBits(e) ==
    LET b == e + 1023 IN
    <<(b \div 1024) % 2, (b \div 512) % 2, (b \div 256) % 2>> \o ByteBits(b % 256)

Zeros(n) == [i \in 1..n |-> 0]

\* the f64 nearest to the magnitude x: u64 (ties to even), with the given sign bit
MagToF64(sign, x) ==
    LET bits == Bits(x)
        ones == {i \in 1..64 : bits[i] = 1}
    IN
    IF ones = {} THEN Bytes(<<sign>> \o Zeros(63))
    ELSE LET p == CHOOSE i \in ones : \A j \in ones : i <= j
             e == 64 - p
             frac == SubSeq(bits, p + 1, 64)
         IN
         IF e <= 52 THEN Bytes(<<sign>> \o ExpBits(e) \o frac \o Zeros(52 - e))
         ELSE LET mant == SubSeq(frac, 1, 52)
                  rest == SubSeq(frac, 53, e)
                  sticky == \E i \in 2..Len(rest) : rest[i] = 1
                  up == rest[1] = 1 /\ (sticky \/ mant[52] = 1)
              IN
              IF ~up THEN Bytes(<<sign>> \o ExpBits(e) \o mant)
              ELSE IF mant = [i \in 1..52 |-> 1]
                   THEN Bytes(<<sign>> \o ExpBits(e + 1) \o Zeros(52))
              ELSE Bytes(<<sign>> \o ExpBits(e) \o IncBits(mant))

\* x as f64, for x: u64 and for x: i64
U64AsF64(x) == MagToF64(0, x)
I64AsF64(x) == IF IsNeg(x) THEN MagToF64(1, Inc(MinusOneMinus(x))) ELSE MagToF64(0, x)

\* HashMap::insert / BTreeMap::insert
Insert(m, k, v) == [x \in (DOMAIN m) \cup {k} |-> IF x = k THEN v ELSE m[x]]

EmptyMap == <<>>

get_string(v) == IF v.t = "Utf8String" THEN Some(v.str) ELSE None

(* A HashMap<Value, Value> is modelled as the set of its entries <<k, v>>.  *)
(* HashMap::insert looks the key up by its hash and then by ==: an entry    *)
(* whose key is equal and hashes alike is found, and its value replaced     *)
(* (the key stays); an entry whose key is equal but feeds other data to the *)
(* hasher is found only when the two hashes collide, so both outcomes are   *)
(* possible: the maps HashInsert returns.                                   *)
HashInsert(m, k, v) ==
    LET equal == {e \in m : value_eq(e[1], k)}
        alike == {e \in equal : hash(e[1]) = hash(k)}
    IN
    IF alike # {}
    THEN {(m \ alike) \cup {<<e[1], v>> : e \in alike}}
    ELSE {m \cup {<<k, v>>}} \cup {(m \ {e}) \cup {<<e[1], v>>} : e \in equal}

\* for kv in v { let kv = kv.clone(); map.insert(kv.key, kv.val) }
RECURSIVE HashMapsOf(_, _)
HashMapsOf(pairs, maps) ==
    IF pairs = <<>> THEN maps
    ELSE HashMapsOf(Tail(pairs),
                    UNION {HashInsert(m, Head(pairs).key, Head(pairs).val) : m \in maps})

\* Value::get_hash_map: the results the call may return
get_hash_map(v) ==
    IF v.t = "Map" THEN {Some(m) : m \in HashMapsOf(v.map, {{}})} ELSE {None}

RECURSIVE from_value(_, _)
RECURSIVE from_ref(_, _)
RECURSIVE MapFromValue(_, _, _)
RECURSIVE MapFromRef(_, _, _)
RECURSIVE VecFromValue(_, _, _)
RECURSIVE VecFromRef(_, _, _)
RECURSIVE VecFromMap(_, _, _)
RECURSIVE VecFromMap_UniqueKeys(_, _, _)
RECURSIVE VecFromValue_FailFast(_, _, _)
RECURSIVE VecFromRef_KeepLast(_, _, _)

\* an integer conversion that casts an Unsigned without the range check
int_from_value_Unchecked(W, v) ==
    CASE v.t = "Unsigned" -> Some(v.u)
      [] v.t = "Negative" ->
            IF W = "i64" THEN Some(v.i)
            ELSE IF TryFromI64(W, v.i) THEN Some(v.i) ELSE None
      [] OTHER -> None

\* impl FromValue for u64, u32, usize, i64, i32, i8, isize: from_value
int_from_value(W, v) ==
    CASE v.t = "Unsigned" ->
            IF W = "u64" THEN Some(v.u)
            ELSE IF TryFromU64(W, v.u) THEN Some(v.u) ELSE None
      [] v.t = "Negative" ->
            IF W = "i64" THEN Some(v.i)
            ELSE IF TryFromI64(W, v.i) THEN Some(v.i) ELSE None
      [] OTHER -> None

\* impl FromValue for u64, u32, usize, i64, i32, i8, isize: from_ref
int_from_ref(W, v) ==
    CASE v.t = "Unsigned" ->
            IF W = "u64" THEN Some(v.u)
            ELSE IF TryFromU64(W, v.u) THEN Some(v.u) ELSE None
      [] v.t = "Negative" ->
            IF W = "i64" THEN Some(v.i)
            ELSE IF TryFromI64(W, v.i) THEN Some(v.i) ELSE None
      [] OTHER -> None

f64_from_value(v) ==
    CASE v.t = "Unsigned" -> Some(U64AsF64(v.u))
      [] v.t = "Negative" -> Some(I64AsF64(v.i))
      [] v.t = "Float" -> Some(v.f)
      [] OTHER -> None

f64_from_ref(v) ==
    CASE v.t = "Unsigned" -> Some(U64AsF64(v.u))
      [] v.t = "Negative" -> Some(I64AsF64(v.i))
      [] v.t = "Float" -> Some(v.f)
      [] OTHER -> None

bool_from_value(v) ==
    IF v.t = "Simple"
    THEN CASE v.simple.s = "True" -> Some(TRUE)
           [] v.simple.s = "False" -> Some(FALSE)
           [] OTHER -> None
    ELSE None

bool_from_ref(v) ==
    IF v.t = "Simple"
    THEN CASE v.simple.s = "True" -> Some(TRUE)
           [] v.simple.s = "False" -> Some(FALSE)
           [] OTHER -> None
    ELSE None

\* for kv in cmap { if let Some(k), Some(v) = from_value(..) { m.insert(k, v) } }
MapFromValue(T, cmap, m) ==
    IF cmap = <<>> THEN m
    ELSE LET kv == Head(cmap)
             k == from_value(T.key, kv.key)
             v == from_value(T.val, kv.val)
         IN
         IF k # None /\ v # None
         THEN MapFromValue(T, Tail(cmap), Insert(m, k.some, v.some))
         ELSE MapFromValue(T, Tail(cmap), m)

\* for kv in cmap { if let Some(k), Some(v) = from_ref(..) { m.insert(k, v) } }
MapFromRef(T, cmap, m) ==
    IF cmap = <<>> THEN m
    ELSE LET kv == Head(cmap)
             k == from_ref(T.key, kv.key)
             v == from_ref(T.val, kv.val)
         IN
         IF k # None /\ v # None
         THEN MapFromRef(T, Tail(cmap), Insert(m, k.some, v.some))
         ELSE MapFromRef(T, Tail(cmap), m)

\* a variant of the Vec<T> loop that gives up at the first element that does not convert
VecFromValue_FailFast(T, items, arr) ==
    IF items = <<>> THEN arr
    ELSE LET x == from_value(T, Head(items)) IN
         IF x = None THEN arr
         ELSE VecFromValue_FailFast(T, Tail(items), Append(arr, x.some))

\* for item in value_arr { if let Some(x) = T::from_value(item) { arr.push(x) } }
VecFromValue(T, items, arr) ==
    IF items = <<>> THEN arr
    ELSE LET x == from_value(T, Head(items)) IN
         VecFromValue(T, Tail(items), IF x # None THEN Append(arr, x.some) ELSE arr)

\* a variant of the borrowing Vec<T> loop that keeps only the last converted element
VecFromRef_KeepLast(T, items, arr) ==
    IF items = <<>> THEN arr
    ELSE LET x == from_ref(T, Head(items)) IN
         VecFromRef_KeepLast(T, Tail(items), IF x # None THEN <<x.some>> ELSE arr)

\* for item in value_arr { if let Some(x) = T::from_ref(item) { arr.push(x) } }
VecFromRef(T, items, arr) ==
    IF items = <<>> THEN arr
    ELSE LET x == from_ref(T, Head(items)) IN
         VecFromRef(T, Tail(items), IF x # None THEN Append(arr, x.some) ELSE arr)

\* a Map branch that keeps, of the entries with equal keys, only the last one
VecFromMap_UniqueKeys(T, m, arr) ==
    IF m = <<>> THEN arr
    ELSE LET x == from_value(T, Map(<<Head(m)>>))
             again_later == \E j \in 2..Len(m) : m[j].key = Head(m).key
         IN
         VecFromMap_UniqueKeys(T, Tail(m),
                               IF x # None /\ ~again_later THEN Append(arr, x.some) ELSE arr)

\* for kv in m { if let Some(x) = T::from_value(Value::Map(vec![kv.clone()])) { push } }
VecFromMap(T, m, arr) ==
    IF m = <<>> THEN arr
    ELSE LET x == from_value(T, Map(<<Head(m)>>)) IN
         VecFromMap(T, Tail(m), IF x # None THEN Append(arr, x.some) ELSE arr)

RECURSIVE BytesFromValue(_, _)
RECURSIVE BytesFromValue_Truncating(_, _)
\* a loop that casts every integer element to a byte (x as u8) without the check
BytesFromValue_Truncating(items, arr) ==
    IF items = <<>> THEN arr
    ELSE LET e == Head(items) IN
         BytesFromValue_Truncating(Tail(items),
                                   IF e.t = "Unsigned" THEN Append(arr, e.u[8])
                                   ELSE IF e.t = "Negative" THEN Append(arr, e.i[8])
                                   ELSE arr)

\* for item in value_arr { if let Ok(x) = u8::try_from(item) { arr.push(x) } }
BytesFromValue(items, arr) ==
    IF items = <<>> THEN arr
    ELSE LET x == u8_try_from(Head(items)) IN
         BytesFromValue(Tail(items), IF x # None THEN Append(arr, x.some[8]) ELSE arr)

\* for item in value_arr { if let Ok(x) = u8::try_from(&item) { arr.push(x) } }
RECURSIVE BytesFromRef(_, _)
BytesFromRef(items, arr) ==
    IF items = <<>> THEN arr
    ELSE LET x == u8_try_from_ref(Head(items)) IN
         BytesFromRef(Tail(items), IF x # None THEN Append(arr, x.some[8]) ELSE arr)

\* impl FromValue for Vec<T>: from_value
vec_from_value(T, v) ==
    CASE v.t = "Array" -> Some(VecFromValue(T.elem, v.arr, <<>>))
      [] v.t = "Map" -> Some(VecFromMap(T.elem, v.map, <<>>))
      [] OTHER -> None

\* impl FromValue for Vec<T>: from_ref
vec_from_ref(T, v) ==
    CASE v.t = "Array" -> Some(VecFromRef(T.elem, v.arr, <<>>))
      [] v.t = "Map" -> Some(VecFromMap(T.elem, v.map, <<>>))
      [] OTHER -> None

\* impl FromValue for Vec<u8>: from_value
bytes_from_value(v) ==
    CASE v.t = "ByteString" -> Some(v.bytes)
      [] v.t = "Array" -> Some(BytesFromValue(v.arr, <<>>))
      [] OTHER -> None

\* impl FromValue for Vec<u8>: from_ref
bytes_from_ref(v) ==
    CASE v.t = "ByteString" -> Some(v.bytes)
      [] v.t = "Array" -> Some(BytesFromRef(v.arr, <<>>))
      [] OTHER -> None

\* a variant of the map conversion that fails as a whole when an entry does not convert
map_from_value_Strict(T, v) ==
    IF v.t # "Map" THEN None
    ELSE IF \E j \in 1..Len(v.map) :
               \/ from_value(T.key, v.map[j].key) = None
               \/ from_value(T.val, v.map[j].val) = None
         THEN None
    ELSE Some(MapFromValue(T, v.map, EmptyMap))

\* impl FromValue for HashMap<K, V, S> and for BTreeMap<K, V>: from_value
map_from_value(T, v) ==
    IF v.t = "Map" THEN Some(MapFromValue(T, v.map, EmptyMap)) ELSE None

\* impl FromValue for HashMap<K, V, S> and for BTreeMap<K, V>: from_ref
map_from_ref(T, v) ==
    IF v.t = "Map" THEN Some(MapFromRef(T, v.map, EmptyMap)) ELSE None

\* a pair conversion that takes the first entry of a Map of any size
pair_from_value_AnyCount(T, v) ==
    IF v.t # "Map" THEN None
    ELSE IF Len(v.map) = 0 THEN None
    ELSE LET k == from_value(T.key, v.map[1].key)
             x == from_value(T.val, v.map[1].val)
         IN
         IF k # None /\ x # None THEN Some(<<k.some, x.some>>) ELSE None

\* impl FromValue for (K, V): from_value
pair_from_value(T, v) ==
    IF v.t # "Map" THEN None
    ELSE IF Len(v.map) # 1 THEN None
    ELSE LET k == from_value(T.key, v.map[1].key)
             x == from_value(T.val, v.map[1].val)
         IN
         IF k # None /\ x # None THEN Some(<<k.some, x.some>>) ELSE None

\* impl FromValue for (K, V): from_ref
pair_from_ref(T, v) ==
    IF v.t # "Map" THEN None
    ELSE IF Len(v.map) # 1 THEN None
    ELSE LET k == from_ref(T.key, v.map[1].key)
             x == from_ref(T.val, v.map[1].val)
         IN
         IF k # None /\ x # None THEN Some(<<k.some, x.some>>) ELSE None

\* T::from_value(v), dispatched on the target type
from_value(T, v) ==
    CASE T.k = "Value" -> Some(v)
      [] T.k \in IntTypes -> int_from_value(T.k, v)
      [] T.k \in {"HashMap", "BTreeMap"} -> map_from_value(T, v)
      [] T.k = "Vec" -> vec_from_value(T, v)
      [] T.k = "VecU8" -> bytes_from_value(v)
      [] T.k = "Pair" -> pair_from_value(T, v)
      [] T.k = "String" -> get_string(v)
      [] T.k = "f64" -> f64_from_value(v)
      [] T.k = "bool" -> bool_from_value(v)

\* T::from_ref(&v), dispatched on the target type
from_ref(T, v) ==
    CASE T.k = "Value" -> Some(v)
      [] T.k \in IntTypes -> int_from_ref(T.k, v)
      [] T.k \in {"HashMap", "BTreeMap"} -> map_from_ref(T, v)
      [] T.k = "Vec" -> vec_from_ref(T, v)
      [] T.k = "VecU8" -> bytes_from_ref(v)
      [] T.k = "Pair" -> pair_from_ref(T, v)
      [] T.k = "String" -> get_string(v)
      [] T.k = "f64" -> f64_from_ref(v)
      [] T.k = "bool" -> bool_from_ref(v)

\* impl ValueInto<U> for Value
into_type(T, v) == from_value(T, v)
to_type(T, v) == from_value(T, v)

\* decode_to that reports a failed conversion as an error instead of Ok(None)
decode_to_NoneIsError(T, stream) ==
    LET r == decode_iter(stream, 1) IN
    IF ~r.ok THEN r
    ELSE IF from_value(T, r.val) = None THEN ErrAt("UnexpectedValue", r.pos)
    ELSE OkAt(from_value(T, r.val), r.pos)

\* decode_to::<T>(stream)
decode_to(T, stream) ==
    LET r == decode_iter(stream, 1) IN
    IF ~r.ok THEN r ELSE OkAt(from_value(T, r.val), r.pos)

-----------------------------------------------------------------------------
(* The reverse direction, native -> Value: src/value/mod.rs.  A native map *)
(* that is a source is given as the sequence of its entries <<k, v>> in    *)
(* its iteration order: any order of distinct keys for a HashMap, the      *)
(* ascending key order for a BTreeMap.                                     *)

RECURSIVE to_value(_, _)
RECURSIVE VecToValue(_, _)
RECURSIVE MapToValue(_, _)

\* for e in self { arr.push(e.to_value()) }
VecToValue(T, x) ==
    IF x = <<>> THEN <<>>
    ELSE <<to_value(T, Head(x))>> \o VecToValue(T, Tail(x))

\* for entry in self { v.push(KeyVal { key: entry.0.to_value(), val: entry.1.to_value() }) }
MapToValue(T, x) ==
    IF x = <<>> THEN <<>>
    ELSE <<KeyVal(to_value(T.key, Head(x)[1]), to_value(T.val, Head(x)[2]))>>
         \o MapToValue(T, Tail(x))

\* a reverse conversion that stores every signed integer in the Negative variant
to_value_SignedAsNegative(T, x) ==
    CASE T.k = "Value" -> x
      [] T.k \in {"u32", "u64"} -> Unsigned(x)
      [] T.k \in {"i8", "i32", "i64"} -> Negative(x)
      [] T.k = "VecU8" -> ByteString(x)
      [] T.k = "String" -> Utf8String(x)
      [] T.k = "Vec" -> Array(VecToValue(T.elem, x))
      [] T.k \in {"HashMap", "BTreeMap"} -> Map(MapToValue(T, x))
      [] T.k = "f64" -> Float(x)
      [] T.k = "bool" -> IF x THEN Simple(SimpleTrue) ELSE Simple(SimpleFalse)

\* x.to_value() for x of the native type T
to_value(T, x) ==
    CASE T.k = "Value" -> x
      [] T.k \in {"u32", "u64"} -> Unsigned(x)
      [] T.k \in {"i8", "i32", "i64"} -> IF IsNeg(x) THEN Negative(x) ELSE Unsigned(x)
      [] T.k = "VecU8" -> ByteString(x)
      [] T.k = "String" -> Utf8String(x)
      [] T.k = "Vec" -> Array(VecToValue(T.elem, x))
      [] T.k \in {"HashMap", "BTreeMap"} -> Map(MapToValue(T, x))
      [] T.k = "f64" -> Float(x)
      [] T.k = "bool" -> IF x THEN Simple(SimpleTrue) ELSE Simple(SimpleFalse)

\* the map a source entry sequence stands for, as from_value represents it
RECURSIVE AsNative(_, _)
AsNative(T, x) ==
    CASE T.k \in {"HashMap", "BTreeMap"} ->
            [key \in {x[j][1] : j \in 1..Len(x)} |->
                AsNative(T.val, x[CHOOSE j \in 1..Len(x) : x[j][1] = key][2])]
      [] T.k = "Vec" -> [j \in 1..Len(x) |-> AsNative(T.elem, x[j])]
      [] OTHER -> x

-----------------------------------------------------------------------------
(* The inputs of the model.                                                *)

Nil == [t |-> "Nil"]

\* all sequences over S of length 0..n
SeqsUpTo(S, n) == UNION {[1..m -> S] : m \in 0..n}

Str_a == <<97>>
Str_k == <<107>>
Str_ab == <<97, 98>>
\* "é", a two-byte UTF-8 character
Str_e_acute == <<195, 169>>

UnsignedSamples ==
    {U64(0), U64(1), U64(23), U64(24), U64(255), U64(256), U64(65535), U64(65536),
     U32_MAX, TwoPow32, I64_MAX, I64_MIN, U64_MAX,
     U64(127), U64(128), I32_MAX, <<0, 0, 0, 0, 128, 0, 0, 0>>}

NegativeSamples ==
    {I64Neg(1), I64Neg(24), I64Neg(25), I64Neg(128), I64Neg(129), I64Neg(256), I64Neg(257),
     I32_MIN, I64_MIN_PLUS_1, I64_MIN, U64(5),
     <<255, 255, 255, 255, 127, 255, 255, 255>>, TwoPow32}

SimpleSamples ==
    {SimpleFalse, SimpleTrue, SimpleNull, SimpleUndefined, Unassigned(0), Unassigned(19),
     Unassigned(20), Unassigned(31), Unassigned(32), Unassigned(255)}

\* 2.5, 0.0, -0.0, a NaN
FloatSamples ==
    {<<64, 4, 0, 0, 0, 0, 0, 0>>, U64(0), I64_MIN, <<127, 248, 0, 0, 0, 0, 0, 0>>}

Leaves ==
    {Unsigned(x) : x \in UnsignedSamples}
    \cup {Negative(x) : x \in NegativeSamples}
    \cup {ByteString(b) : b \in {<<>>, <<1>>, <<1, 2, 255>>}}
    \cup {Utf8String(b) : b \in {<<>>, Str_a, Str_ab, Str_e_acute}}
    \cup {Simple(x) : x \in SimpleSamples}
    \cup {Float(x) : x \in FloatSamples}

\* the leaves aggregates are built from
NestLeaves ==
    {Unsigned(U64(1)), Unsigned(U64(300)), Negative(I64Neg(2)), Utf8String(Str_a),
     Simple(SimpleTrue)}

MapKeys == {Unsigned(U64(7)), Utf8String(Str_k)}

FlatArrays == {Array(a) : a \in SeqsUpTo(NestLeaves, MaxLen)}

FlatMaps ==
    {Map(m) : m \in SeqsUpTo({KeyVal(k, v) : k \in MapKeys, v \in NestLeaves}, MaxLen)}

\* a small counterpart of the test fixture TEST_DATA_DEFINITE
Fixture ==
    Map(<<KeyVal(Unsigned(U64(555)),
                 Map(<<KeyVal(Utf8String(Str_a), Float(<<64, 4, 0, 0, 0, 0, 0, 0>>)),
                       KeyVal(Utf8String(Str_k), Utf8String(Str_ab)),
                       KeyVal(Utf8String(Str_ab), Unsigned(U64(8)))>>)),
          KeyVal(Unsigned(U64(777)),
                 Array(<<Unsigned(U64(11)), Negative(I64Neg(22)), Utf8String(Str_a)>>))>>)

Inner == {Array(<<>>), Map(<<>>), Array(<<Unsigned(U64(1))>>),
          Map(<<KeyVal(Utf8String(Str_k), Utf8String(Str_a))>>),
          Map(<<KeyVal(Utf8String(Str_k), Unsigned(U64(0)))>>)}

Nested ==
    {Array(<<a>>) : a \in Inner}
    \cup {Array(<<a, Unsigned(U64(1))>>) : a \in Inner}
    \cup {Map(<<KeyVal(k, a)>>) : k \in MapKeys, a \in Inner}
    \cup {Map(<<KeyVal(a, Unsigned(U64(1)))>>) : a \in Inner}
    \cup {Fixture}

\* arrays and maps holding a simple value with a reserved code, 20 .. 31
Gapped ==
    {Array(<<Simple(Unassigned(20))>>),
     Array(<<Unsigned(U64(1)), Simple(Unassigned(31)), Utf8String(Str_a)>>),
     Map(<<KeyVal(Unsigned(U64(7)), Simple(Unassigned(24)))>>),
     Map(<<KeyVal(Simple(Unassigned(20)), Unsigned(U64(1))),
           KeyVal(Utf8String(Str_k), Unsigned(U64(1)))>>)}

\* maps with Float keys: 0.0 and -0.0, 0.0 twice, a NaN twice, 2.5 twice among others
FloatKeyed ==
    {Map(<<KeyVal(Float(U64(0)), Unsigned(U64(1))),
           KeyVal(Float(I64_MIN), Unsigned(U64(300)))>>),
     Map(<<KeyVal(Float(U64(0)), Unsigned(U64(1))),
           KeyVal(Float(U64(0)), Unsigned(U64(300)))>>),
     Map(<<KeyVal(Float(<<127, 248, 0, 0, 0, 0, 0, 0>>), Unsigned(U64(1))),
           KeyVal(Float(<<127, 248, 0, 0, 0, 0, 0, 0>>), Unsigned(U64(300)))>>),
     Map(<<KeyVal(Float(<<64, 4, 0, 0, 0, 0, 0, 0>>), Unsigned(U64(1))),
           KeyVal(Utf8String(Str_k), Unsigned(U64(1)))>>)}

Values == Leaves \cup FlatArrays \cup FlatMaps \cup Nested \cup Gapped \cup FloatKeyed

\* the Values a Value is compared with, besides itself
CompareSamples ==
    {Unsigned(U64(1)), Negative(U64(1)), Negative(I64Neg(2)), ByteString(<<1>>),
     Utf8String(Str_a), Simple(SimpleTrue), Simple(Unassigned(20)),
     Float(U64(0)), Float(I64_MIN), Float(<<127, 248, 0, 0, 0, 0, 0, 0>>),
     Array(<<>>), Array(<<Unsigned(U64(1))>>), Array(<<Unsigned(U64(1)), Unsigned(U64(1))>>),
     Map(<<>>), Map(<<KeyVal(Unsigned(U64(7)), Unsigned(U64(1)))>>),
     Map(<<KeyVal(Unsigned(U64(7)), Unsigned(U64(1))),
           KeyVal(Unsigned(U64(7)), Unsigned(U64(1)))>>)}

\* the target types of the conversions
Targets ==
    {Ty("Value"), Ty("u64"), Ty("u32"), Ty("usize"), Ty("i64"), Ty("i32"), Ty("i8"),
     Ty("isize"), Ty("String"), Ty("bool"), Ty("f64"), VecU8,
     VecOf(Ty("i64")), VecOf(Ty("String")), VecOf(Ty("Value")),
     VecOf(PairOf(Ty("u64"), Ty("String"))), VecOf(VecOf(Ty("u32"))),
     HashMapOf(Ty("u64"), Ty("String")), HashMapOf(Ty("String"), Ty("i8")),
     HashMapOf(Ty("Value"), Ty("Value")),
     HashMapOf(Ty("u64"), HashMapOf(Ty("String"), Ty("String"))),
     BTreeMapOf(Ty("i64"), VecOf(Ty("i64"))),
     PairOf(Ty("u64"), Ty("String")), PairOf(Ty("String"), Ty("i64"))}

StringMap == HashMapOf(Ty("String"), Ty("String"))
IntToStringMap == HashMapOf(Ty("i64"), StringMap)

DecodeTargets ==
    {IntToStringMap, VecOf(Ty("u32")), Ty("String"), Ty("u32"), PairOf(Ty("u64"), Ty("String"))}

\* the sequences of entries <<k, v>> with distinct keys, at most n of them
EntrySeqs(Ks, Vs, n) ==
    {e \in SeqsUpTo(Ks \X Vs, n) : \A a, b \in 1..Len(e) : a # b => e[a][1] # e[b][1]}

SourceTypes == {IntToStringMap, Ty("i8"), Ty("i32"), Ty("i64"), Ty("u32"), Ty("u64")}

\* the native values the reverse conversion is applied to
Sources(T) ==
    CASE T = IntToStringMap ->
            EntrySeqs({U64(0), U64(555), I64Neg(1)},
                      {<<>>, <<<<Str_a, Str_ab>>>>, <<<<<<>>, <<>>>>>>,
                       <<<<Str_a, <<>>>>, <<<<>>, Str_ab>>>>}, 2)
      [] T = Ty("i8") -> {U64(0), U64(127), I64Neg(1), I8_MIN}
      [] T = Ty("i32") -> {U64(0), I32_MAX, I64Neg(1), I32_MIN}
      [] T = Ty("i64") -> {U64(0), I64_MAX, I64Neg(1), I64_MIN}
      [] T = Ty("u32") -> {U64(0), U32_MAX}
      [] T = Ty("u64") -> {U64(0), U64_MAX}

\* the bytes the raw inputs of the decoder are made of
CoreBytes == {1, 65, 95, 97, 128, 159, 191, 193, 252, 255}
MoreBytes == {0, 24, 32, 127, 129, 161, 216, 245, 248, 249}

ExtraWires ==
    {<<127, 97, 128, 255>>, <<127, 97, 97, 255>>, <<95, 97, 65, 255>>, <<95, 1, 65, 255>>,
     <<95, 65, 1, 65, 2, 255>>, <<66, 1, 2>>, <<159, 1, 1, 255>>, <<130, 1, 1>>,
     <<191, 1, 1, 255>>, <<161, 1, 1>>, <<191, 1, 1, 1, 1, 255>>, <<162, 1, 1, 1, 1>>,
     <<27, 0, 0, 0, 1, 0, 0, 0, 0>>, <<59, 255, 255, 255, 255, 255, 255, 255, 255>>,
     <<59, 127, 255, 255, 255, 255, 255, 255, 255>>, <<216, 32, 1>>, <<248, 32>>,
     <<251, 64, 4, 0, 0, 0, 0, 0, 0>>, <<249, 62, 0>>, <<98, 195, 169>>, <<98, 195, 40>>,
     <<23>>, <<25, 1, 44>>, <<25, 1>>, <<26, 0, 1, 0, 0>>, <<26, 1, 2, 3>>,
     <<27, 1, 2, 3, 4, 5, 6, 7>>, <<28>>, <<30, 1>>, <<31>>,
     <<56, 255>>, <<57, 1, 0>>, <<58, 0, 1, 0, 0>>, <<59, 128, 0, 0, 0, 0, 0, 0, 0>>, <<60>>,
     <<224>>, <<243>>, <<244>>, <<246>>, <<247>>, <<248, 31>>, <<248, 255, 1>>,
     <<91, 255, 255, 255, 255, 255, 255, 255, 255, 65>>, <<122, 255, 255, 255, 255, 97>>,
     <<155, 255, 255, 255, 255, 255, 255, 255, 255, 1>>, <<152, 255, 1, 1>>,
     <<187, 255, 255, 255, 255, 255, 255, 255, 255, 1, 1>>, <<129, 129, 129, 1>>}

WireInputs ==
    (SeqsUpTo(CoreBytes, MaxWire) \cup SeqsUpTo(CoreBytes \cup MoreBytes, 2) \cup ExtraWires)

\* the lengths and counts (usize) the header encoder is applied to
LenSamples ==
    {U64(0), U64(23), U64(24), U64(255), U64(256), U64(65535), U64(65536),
     <<0, 0, 0, 0, 1, 2, 3, 4>>, U32_MAX, TwoPow32, <<0, 0, 0, 1, 2, 3, 4, 5>>, U64_MAX}

\* the bytes that may follow a value in a longer stream
Trailers == SeqsUpTo({0, 97, 255}, 2)

\* leading bytes of major type 6: minor 0, 2, 24 .. 28 and 31
TagBytes == {192, 194, 216, 217, 218, 219, 220, 223}

\* the chunks a string payload b is cut into, under major type mj: none at all for
\* an empty payload, one chunk, or two chunks cut at any place (an empty chunk included)
Chunkings(b, mj) ==
    {add_bytes(b, mj)}
    \cup {add_bytes(SubSeq(b, 1, c), mj) \o add_bytes(SubSeq(b, c + 1, Len(b)), mj) :
            c \in 0..Len(b)}
    \cup (IF b = <<>> THEN {<<>>} ELSE {})

IsAggregate(v) == v.t \in {"ByteString", "Utf8String", "Array", "Map"}

\* the indefinite-length encodings of the aggregate v that another encoder may send:
\* header with minor 31, the items or chunks, the break byte
IndefiniteForms(v) ==
    CASE v.t = "Array" -> {<<4 * 32 + 31>> \o EncodeItems(v.arr) \o <<255>>}
      [] v.t = "Map" -> {<<5 * 32 + 31>> \o EncodePairs(v.map) \o <<255>>}
      [] v.t = "ByteString" ->
            {<<2 * 32 + 31>> \o c \o <<255>> : c \in Chunkings(v.bytes, 2)}
      [] v.t = "Utf8String" ->
            {<<3 * 32 + 31>> \o c \o <<255>> : c \in Chunkings(v.str, 3)}

\* the definite-length encoding of the same content: header with the count (at most
\* 23 in this model), then the same items or the payload
DefiniteForm(v) ==
    CASE v.t = "Array" -> <<4 * 32 + Len(v.arr)>> \o EncodeItems(v.arr)
      [] v.t = "Map" -> <<5 * 32 + Len(v.map)>> \o EncodePairs(v.map)
      [] v.t = "ByteString" -> <<2 * 32 + Len(v.bytes)>> \o v.bytes
      [] v.t = "Utf8String" -> <<3 * 32 + Len(v.str)>> \o v.str

\* the encodings of the aggregate v cut short: a definite-length header declaring
\* k more bytes, items or pairs than follow, a map ending after a key, or an
\* indefinite-length form whose break byte is missing
TruncatedForms(v) ==
    CASE v.t = "Array" ->
            {<<4 * 32 + Len(v.arr) + k>> \o EncodeItems(v.arr) : k \in 1..2}
            \cup {<<4 * 32 + 31>> \o EncodeItems(v.arr)}
      [] v.t = "Map" ->
            {<<5 * 32 + Len(v.map) + k>> \o EncodePairs(v.map) : k \in 1..2}
            \cup {<<5 * 32 + Len(v.map) + 1>> \o EncodePairs(v.map) \o <<1>>}
            \cup {<<5 * 32 + 31>> \o EncodePairs(v.map)}
      [] v.t = "ByteString" ->
            {<<2 * 32 + Len(v.bytes) + k>> \o v.bytes : k \in 1..2}
            \cup {<<2 * 32 + 31>> \o c : c \in Chunkings(v.bytes, 2)}
      [] v.t = "Utf8String" ->
            {<<3 * 32 + Len(v.str) + k>> \o v.str : k \in 1..2}
            \cup {<<3 * 32 + 31>> \o c : c \in Chunkings(v.str, 3)}

\* items that fail on their own whatever follows them: an unsigned integer with the
\* reserved minor 28, the simple value 0 in the two-byte form
BadItems == {<<28>>, <<248, 0>>}

\* the encodings of the Array or Map v with the failing item bad put in as one more
\* element before the element j + 1 (for a Map: as the key of one more pair, or as
\* its value), in the definite-length and in the indefinite-length form
DamagedForms(v, bad) ==
    CASE v.t = "Array" ->
            LET n == Len(v.arr)
                body(j) == EncodeItems(SubSeq(v.arr, 1, j)) \o bad
                              \o EncodeItems(SubSeq(v.arr, j + 1, n))
            IN {<<4 * 32 + n + 1>> \o body(j) : j \in 0..n}
               \cup {<<4 * 32 + 31>> \o body(j) \o <<255>> : j \in 0..n}
      [] v.t = "Map" ->
            LET n == Len(v.map)
                body(j, pair) == EncodePairs(SubSeq(v.map, 1, j)) \o pair
                                    \o EncodePairs(SubSeq(v.map, j + 1, n))
            IN {<<5 * 32 + n + 1>> \o body(j, bad \o <<1>>) : j \in 0..n}
               \cup {<<5 * 32 + n + 1>> \o body(j, <<1>> \o bad) : j \in 0..n}
               \cup {<<5 * 32 + 31>> \o body(j, bad \o <<1>>) \o <<255>> : j \in 0..n}
               \cup {<<5 * 32 + 31>> \o body(j, <<1>> \o bad) \o <<255>> : j \in 0..n}

-----------------------------------------------------------------------------
(* The state machine: one run of the program builds a Value (directly or   *)
(* from a native value) or receives raw bytes, and takes it through the    *)
(* encoder, the decoder and the conversions.                               *)

Init ==
    /\ stage = "idle"
    /\ origin = "none"
    /\ value = Nil
    /\ native = Nil
    /\ wire = <<>>
    /\ result = Nil
    /\ target = Nil
    /\ conv = Nil
    /\ convRef = Nil
    /\ extra = <<>>
    /\ again = Nil
    /\ header = Nil
    /\ rhs = Nil
    /\ cmp = Nil
    /\ hmap = Nil

\* application code constructs a Value tree
Build ==
    /\ stage = "idle"
    /\ \E v \in Values : value' = v
    /\ stage' = "built"
    /\ origin' = "value"
    /\ UNCHANGED <<native, wire, result, target, conv, convRef, extra, again, header,
                 rhs, cmp, hmap>>

\* a native value is turned into a Value: ToValue::to_value
ToValue ==
    /\ stage = "idle"
    /\ \E T \in SourceTypes : \E x \in Sources(T) :
          /\ native' = [ty |-> T, x |-> x]
          /\ value' = to_value(T, x)
    /\ stage' = "built"
    /\ origin' = "native"
    /\ UNCHANGED <<wire, result, target, conv, convRef, extra, again, header,
                 rhs, cmp, hmap>>

\* raw bytes arrive
Feed ==
    /\ stage = "idle"
    /\ \E b \in WireInputs : wire' = b
    /\ stage' = "fed"
    /\ origin' = "bytes"
    /\ UNCHANGED <<value, native, result, target, conv, convRef, extra, again, header,
                 rhs, cmp, hmap>>

\* Value::encode
Encode ==
    /\ stage = "built"
    /\ wire' = encode(value)
    /\ stage' = "encoded"
    /\ UNCHANGED <<origin, value, native, result, target, conv, convRef, extra, again, header,
                 rhs, cmp, hmap>>

\* another encoder sends the indefinite-length encoding of the same content
EncodeIndefinite ==
    /\ stage = "built"
    /\ origin = "value"
    /\ IsAggregate(value)
    /\ \E w \in IndefiniteForms(value) : wire' = w
    /\ stage' = "encoded"
    /\ origin' = "peer"
    /\ UNCHANGED <<value, native, result, target, conv, convRef, extra, again, header,
                 rhs, cmp, hmap>>

\* the stream ends early: the encoding of the same content arrives cut short
SendTruncated ==
    /\ stage = "built"
    /\ origin = "value"
    /\ IsAggregate(value)
    /\ \E w \in TruncatedForms(value) : wire' = w
    /\ stage' = "encoded"
    /\ origin' = "truncated"
    /\ UNCHANGED <<value, native, result, target, conv, convRef, extra, again, header,
                 rhs, cmp, hmap>>

\* the encoding of the Array or Map arrives with one failing item among its items
SendDamaged ==
    /\ stage = "built"
    /\ origin = "value"
    /\ value.t \in {"Array", "Map"}
    /\ \E bad \in BadItems : \E w \in DamagedForms(value, bad) :
          /\ extra' = bad
          /\ wire' = w
    /\ stage' = "encoded"
    /\ origin' = "damaged"
    /\ UNCHANGED <<value, native, result, target, conv, convRef, again, header,
                 rhs, cmp, hmap>>

\* the encoder emits the header of a string, array or map of len bytes or items
PushMajorAndLen ==
    /\ stage = "idle"
    /\ \E len \in LenSamples : \E item_code \in 2..5 :
          /\ header' = [len |-> len, item_code |-> item_code]
          /\ wire' = push_major_and_len(len, item_code)
    /\ stage' = "header"
    /\ origin' = "length"
    /\ UNCHANGED <<value, native, result, target, conv, convRef, extra, again,
                 rhs, cmp, hmap>>

\* decode
Decode ==
    /\ stage \in {"encoded", "fed"}
    /\ result' = decode(wire)
    /\ stage' = "decoded"
    /\ UNCHANGED <<origin, value, native, wire, target, conv, convRef, extra, again, header,
                 rhs, cmp, hmap>>

\* decode_to::<T>
DecodeTo ==
    /\ stage \in {"encoded", "fed"}
    /\ origin \in {"bytes", "value", "native", "peer"}
    /\ \E T \in DecodeTargets :
          /\ target' = T
          /\ result' = decode_to(T, wire)
    /\ stage' = "decoded_to"
    /\ UNCHANGED <<origin, value, native, wire, conv, convRef, extra, again, header,
                 rhs, cmp, hmap>>

\* T::from_ref(&value), the borrowing conversion
FromRef ==
    /\ stage = "built"
    /\ \E T \in Targets :
          /\ target' = T
          /\ convRef' = from_ref(T, value)
    /\ stage' = "borrowed"
    /\ UNCHANGED <<origin, value, native, wire, result, conv, extra, again, header,
                 rhs, cmp, hmap>>

\* T::from_value(value), the consuming conversion, for the same T
FromValue ==
    /\ stage = "borrowed"
    /\ conv' = from_value(target, value)
    /\ stage' = "converted"
    /\ UNCHANGED <<origin, value, native, wire, result, target, convRef, extra, again, header,
                 rhs, cmp, hmap>>

\* the same bytes arrive again inside a longer stream: decode(wire ++ t)
DecodeTrailing ==
    /\ stage = "decoded"
    /\ origin \in {"bytes", "value"}
    /\ \E t \in Trailers :
          /\ extra' = t
          /\ again' = decode(wire \o t)
    /\ stage' = "trailing"
    /\ UNCHANGED <<origin, value, native, wire, result, target, conv, convRef, header,
                 rhs, cmp, hmap>>

\* the same bytes arrive again behind a tag byte: decode([g] ++ wire)
DecodeTagged ==
    /\ stage = "decoded"
    /\ origin \in {"bytes", "value"}
    /\ \E g \in TagBytes :
          /\ extra' = <<g>>
          /\ again' = decode(<<g>> \o wire)
    /\ stage' = "tagged"
    /\ UNCHANGED <<origin, value, native, wire, result, target, conv, convRef, header,
                 rhs, cmp, hmap>>

\* value == rhs, and both are hashed: PartialEq::eq and Hash::hash
Compare ==
    /\ stage = "built"
    /\ \E b \in {value} \cup CompareSamples :
          /\ rhs' = b
          /\ cmp' = [eq |-> value_eq(value, b), lhs |-> hash(value), rhs |-> hash(b)]
    /\ stage' = "compared"
    /\ UNCHANGED <<origin, value, native, wire, result, target, conv, convRef, extra, again,
                 header, hmap>>

\* value.get_hash_map(), which borrows the Value
GetHashMap ==
    /\ stage = "built"
    /\ hmap' \in get_hash_map(value)
    /\ stage' = "hashed"
    /\ UNCHANGED <<origin, value, native, wire, result, target, conv, convRef, extra, again,
                 header, rhs, cmp>>

Next ==
    \/ Build
    \/ ToValue
    \/ Feed
    \/ Encode
    \/ EncodeIndefinite
    \/ Decode
    \/ DecodeTo
    \/ FromRef
    \/ FromValue
    \/ DecodeTrailing
    \/ DecodeTagged
    \/ SendTruncated
    \/ SendDamaged
    \/ PushMajorAndLen
    \/ Compare
    \/ GetHashMap

Spec == Init /\ [][Next]_vars

-----------------------------------------------------------------------------
(* The properties.                                                         *)

RECURSIVE NoFloat(_)
NoFloat(v) ==
    CASE v.t = "Float" -> FALSE
      [] v.t = "Array" -> \A j \in 1..Len(v.arr) : NoFloat(v.arr[j])
      [] v.t = "Map" -> \A j \in 1..Len(v.map) : NoFloat(v.map[j].key) /\ NoFloat(v.map[j].val)
      [] OTHER -> TRUE

IsDecodeError(r) == ~r.ok /\ r.kind \in {"UnexpectedValue", "InsufficientBytes"}

\* the wire was produced by Value::encode from the Value of this run, and decoded
RoundTripped == stage = "decoded" /\ origin \in {"value", "native"}

\* C1: round trip: for every Value v without floats, built from definite-length
\* aggregates (the value 0 and empty strings, arrays and maps included),
\* decode(v.encode()) returns Ok(w) with w == v.
C1_RoundTrip ==
    (RoundTripped /\ NoFloat(value)) => (result.ok /\ value_eq(result.val, value))

C2Samples ==
    {U64(0), U64(23), U64(24), U64(255), U64(256), U64(65535), U64(65536), U32_MAX, TwoPow32}

\* the shortest legal encoding of the unsigned integer x: the header byte with the
\* minor code, then the value in 0, 1, 2, 4 or 8 big-endian bytes
ShortestUnsigned(x) ==
    IF ULe(x, U64(23)) THEN <<x[8]>>
    ELSE IF ULe(x, U64(255)) THEN <<24>> \o SubSeq(x, 8, 8)
    ELSE IF ULe(x, U16_MAX) THEN <<25>> \o SubSeq(x, 7, 8)
    ELSE IF ULe(x, U32_MAX) THEN <<26>> \o SubSeq(x, 5, 8)
    ELSE <<27>> \o x

\* C2: minimal-length integer encoding: for n in {0, 23, 24, 255, 256, 65535, 65536,
\* 2^32-1, 2^32}, Value::Unsigned(n).encode() is the shortest legal form: 1 byte when
\* n <= 23, 2 bytes (minor 24) up to 255, 3 bytes (minor 25) up to 65535, 5 bytes
\* (minor 26) up to 2^32-1 and 9 bytes (minor 27) above, the value in big-endian order.
C2_MinimalLength ==
    (stage = "encoded" /\ origin = "value" /\ value.t = "Unsigned" /\ value.u \in C2Samples)
        => wire = ShortestUnsigned(value.u)

C3Samples == {I64Neg(1), I64Neg(24), I64Neg(25), I64_MIN_PLUS_1}

\* C3: negative round trip: for n in {-1, -24, -25, i64::MIN+1},
\* decode(Value::Negative(n).encode()) returns Ok(Value::Negative(n)).
C3_NegativeRoundTrip ==
    (RoundTripped /\ value.t = "Negative" /\ value.i \in C3Samples)
        => (result.ok /\ result.val = Negative(value.i))

\* two decode outcomes are the same result: both Ok with identical trees, or both
\* the same error
SameResult(r1, r2) ==
    /\ r1.ok = r2.ok
    /\ r1.ok => r1.val = r2.val
    /\ ~r1.ok => r1.kind = r2.kind

\* C4: indefinite/definite equivalence: for every array, map, byte string or text
\* string content (empty content and zero-length chunks included), decoding its
\* indefinite-length encoding and decoding the definite-length encoding of the same
\* content return the same result, an identical Value tree.
C4_IndefiniteDefinite ==
    (stage = "decoded" /\ origin = "peer")
        => SameResult(result, decode(DefiniteForm(value)))

\* C5: decode never aborts: for every byte sequence decode returns Ok(Value) or an
\* Err of kind UnexpectedValue or InsufficientBytes.
C5_NeverAborts ==
    stage = "decoded" => (result.ok \/ IsDecodeError(result))

\* the wire is a text string (major 3) whose payload is complete and is not UTF-8
InvalidText ==
    /\ wire # <<>>
    /\ read_type(wire[1]).major = 3
    /\ LET r == parse_byte_string(read_type(wire[1]).minor, wire, 2) IN
       r.ok /\ ~ValidUtf8(r.val)

\* C6: decoding a text string (definite or indefinite) whose concatenated payload is
\* not valid UTF-8 returns a decode error through the Result; it does not abort and
\* yields no Utf8String.
C6_InvalidUtf8IsError ==
    (stage = "decoded" /\ InvalidText) => IsDecodeError(result)

\* the elements of the Array arr that convert to T, converted, in their order
ConvertibleSubsequence(T, arr) ==
    LET keep == SelectSeq(arr, LAMBDA e : from_value(T, e) # None) IN
    [j \in 1..Len(keep) |-> from_value(T, keep[j]).some]

\* C7: lossy skip: converting a Value::Array to Vec<T> always returns Some, and the
\* result is exactly the subsequence of the elements that convert to T, in their
\* original order; the elements that do not convert are dropped.
C7_LossySkip ==
    (stage = "converted" /\ value.t = "Array" /\ target.k = "Vec")
        => /\ conv = Some(ConvertibleSubsequence(target.elem, value.arr))
           /\ convRef = Some(ConvertibleSubsequence(target.elem, value.arr))

\* an Array mixing convertible and non-convertible elements was converted
C7_Witness ==
    /\ stage = "converted"
    /\ value.t = "Array"
    /\ target = VecOf(Ty("i64"))
    /\ Len(value.arr) = 2
    /\ conv # None
    /\ Len(conv.some) = 1
    /\ from_value(Ty("i64"), value.arr[1]) = None

\* the entries of the Map m whose key converts to K and whose value converts to V
ConvertibleEntries(T, m) ==
    {j \in 1..Len(m) : from_value(T.key, m[j].key) # None /\ from_value(T.val, m[j].val) # None}

FixtureTarget == HashMapOf(Ty("u64"), HashMapOf(Ty("String"), Ty("String")))

\* C8: converting a Value::Map to a HashMap<K,V> or BTreeMap<K,V> always returns
\* Some, and the result holds an entry for exactly those pairs whose key converts to
\* K and whose value converts to V (for the fixture and Map<u64, Map<String,String>>:
\* only key 555 with its string-valued fields); a non-Map source returns None.
C8_MapConversion ==
    (stage = "converted" /\ target.k \in {"HashMap", "BTreeMap"})
        => IF value.t # "Map" THEN conv = None
           ELSE LET ok == ConvertibleEntries(target, value.map) IN
                /\ conv # None
                /\ DOMAIN conv.some = {from_value(target.key, value.map[j].key).some : j \in ok}
                /\ \A k \in DOMAIN conv.some :
                      \E j \in ok :
                         /\ from_value(target.key, value.map[j].key) = Some(k)
                         /\ from_value(target.val, value.map[j].val) = Some(conv.some[k])
                /\ (value = Fixture /\ target = FixtureTarget)
                      => conv = Some([k \in {U64(555)} |-> [x \in {Str_k} |-> Str_ab]])

\* the fixture was converted to Map<u64, Map<String,String>>, entries being dropped
C8_Witness ==
    /\ stage = "converted"
    /\ value = Fixture
    /\ target = FixtureTarget
    /\ conv # None
    /\ DOMAIN conv.some = {U64(555)}
    /\ DOMAIN conv.some[U64(555)] = {Str_k}

\* C9: native round trip through the wire: for every native map m from integer keys
\* to maps of String to String (key 0, empty inner maps and empty strings included),
\* decode_to applied to m.to_value().encode() returns Ok(Some(m2)) with m2 = m.
C9_NativeRoundTrip ==
    (stage = "decoded_to" /\ origin = "native" /\ native.ty = IntToStringMap
                          /\ target = IntToStringMap)
        => (result.ok /\ result.val = Some(AsNative(native.ty, native.x)))

VariantMatches(T, v) ==
    CASE T.k = "Value" -> TRUE
      [] T.k \in IntTypes -> v.t \in {"Unsigned", "Negative"}
      [] T.k = "f64" -> v.t \in {"Unsigned", "Negative", "Float"}
      [] T.k = "String" -> v.t = "Utf8String"
      [] T.k = "bool" -> v.t = "Simple"
      [] T.k = "VecU8" -> v.t \in {"ByteString", "Array"}
      [] T.k = "Vec" -> v.t \in {"Array", "Map"}
      [] T.k \in {"HashMap", "BTreeMap", "Pair"} -> v.t = "Map"

\* decode_to and decode fail together, with the same error kind
SameFailure(r, d) ==
    /\ IsDecodeError(r) <=> IsDecodeError(d)
    /\ IsDecodeError(d) => r.kind = d.kind

\* C11 as stated: decode_to<T>(bytes) returns Err exactly when decode(bytes) returns
\* Err (same kind), Ok(None) when decode succeeds but the variant of the top-level
\* Value does not match the shape of T, and otherwise Ok(Some(t)), t the conversion
\* of the decoded Value.
C11_Original ==
    stage = "decoded_to"
        => LET d == decode(wire) IN
           /\ SameFailure(result, d)
           /\ d.ok => /\ result.ok
                      /\ result.val = from_value(target, d.val)
                      /\ (result.val = None) <=> ~VariantMatches(target, d.val)

\* C11, amended: decode_to<T>(bytes) returns Err exactly when decode(bytes) returns
\* Err (same kind); when decode returns Ok(v) it returns Ok(T::from_value(v)), which
\* is Ok(None) whenever the variant of v does not match the shape of T, and may be
\* Ok(None) for a matching variant too (an integer out of range, a pair that is not
\* a one-entry Map of a convertible key and value).
C11_DecodeTo ==
    stage = "decoded_to"
        => LET d == decode(wire) IN
           /\ SameFailure(result, d)
           /\ d.ok => /\ result.ok
                      /\ result.val = from_value(target, d.val)
                      /\ ~VariantMatches(target, d.val) => result.val = None

\* decode_to::<u32> of an Unsigned too large for u32 returned Ok(None)
C11_Witness ==
    /\ stage = "decoded_to"
    /\ target = Ty("u32")
    /\ result.ok
    /\ result.val = None
    /\ decode(wire).ok
    /\ decode(wire).val.t = "Unsigned"

\* C12: trailing bytes are ignored: if decode(b) returns Ok(v), then for every byte
\* sequence t decode(b ++ t) returns Ok(v), having read exactly the bytes of the one
\* value and nothing past its last byte.
C12_TrailingIgnored ==
    (stage = "trailing" /\ result.ok)
        => /\ again = result
           /\ again.pos <= Len(wire) + 1

\* a value was decoded from a stream that goes on after it
C12_Witness ==
    /\ stage = "trailing"
    /\ result.ok
    /\ result.val.t = "Array"
    /\ Len(extra) = 2
    /\ again.ok
    /\ again.pos = Len(wire) + 1

\* C13: errors are fatal and first-wins: when a nested item fails, the enclosing
\* decode returns that first error and no partial Value; a definite-length string,
\* array or map whose declared length or count exceeds the bytes or items present
\* returns InsufficientBytes, and so does an indefinite-length aggregate with no
\* break byte before the end of the input.
C13_FirstErrorWins ==
    /\ (stage = "decoded" /\ origin = "truncated")
          => result = ErrAt("InsufficientBytes", Len(wire) + 1)
    /\ (stage = "decoded" /\ origin = "damaged")
          => (~result.ok /\ result.kind = decode(extra).kind)

\* the unsigned integer the rule of major type 0 reads from the bytes w, whose
\* leading byte has the minor mn: the minor itself up to 23, the next 1, 2, 4 or 8
\* bytes in big-endian order for 24 .. 27, UnexpectedValue for any other minor,
\* InsufficientBytes when the bytes run out
UnsignedRule(w) ==
    LET mn == read_type(w[1]).minor
        n == CASE mn = 24 -> 1 [] mn = 25 -> 2 [] mn = 26 -> 4 [] mn = 27 -> 8 [] OTHER -> 0
    IN
    IF mn <= 23 THEN OkAt(Unsigned(U64(mn)), 2)
    ELSE IF mn > 27 THEN ErrAt("UnexpectedValue", 2)
    ELSE IF Len(w) - 1 < n THEN ErrAt("InsufficientBytes", Len(w) + 1)
    ELSE OkAt(Unsigned([j \in 1..8 |-> IF j <= 8 - n THEN 0 ELSE w[1 + j - (8 - n)]]), n + 2)

\* C14: unsigned integer decoding (major 0): minor 0 .. 23 yields the minor itself
\* (minor 0 yields 0); minor 24/25/26/27 yields the big-endian value of the next
\* 1/2/4/8 bytes; any other minor fails with UnexpectedValue; running out of input
\* while reading the trailing bytes fails with InsufficientBytes.
C14_UnsignedDecoding ==
    (stage = "decoded" /\ wire # <<>> /\ read_type(wire[1]).major = 0)
        => result = UnsignedRule(wire)

C16_MapOrder ==
    (stage = "decoded" /\ origin \in {"value", "peer"} /\ value.t = "Map")
        => /\ result.ok
           /\ result.val.t = "Map"
           /\ Len(result.val.map) = Len(value.map)
           /\ \A j \in 1..Len(value.map) : result.val.map[j] = value.map[j]

IntTargets == {"u32", "u64", "usize", "i8", "i32", "i64", "isize"}

\* W::MAX and W::MIN as 64-bit patterns (usize and isize are 64 bits wide)
MaxOf(W) ==
    CASE W = "u32" -> <<0, 0, 0, 0, 255, 255, 255, 255>>
      [] W \in {"u64", "usize"} -> <<255, 255, 255, 255, 255, 255, 255, 255>>
      [] W = "i8" -> <<0, 0, 0, 0, 0, 0, 0, 127>>
      [] W = "i32" -> <<0, 0, 0, 0, 127, 255, 255, 255>>
      [] W \in {"i64", "isize"} -> <<127, 255, 255, 255, 255, 255, 255, 255>>

MinOf(W) ==
    CASE W \in {"u32", "u64", "usize"} -> <<0, 0, 0, 0, 0, 0, 0, 0>>
      [] W = "i8" -> <<255, 255, 255, 255, 255, 255, 255, 128>>
      [] W = "i32" -> <<255, 255, 255, 255, 128, 0, 0, 0>>
      [] W \in {"i64", "isize"} -> <<128, 0, 0, 0, 0, 0, 0, 0>>

\* the integer Value v holds a number in MinOf(W) .. MaxOf(W): an Unsigned holds the
\* unsigned reading of its pattern, a Negative the signed reading
InRange(W, v) ==
    IF v.t = "Unsigned" THEN ULe(v.u, MaxOf(W))
    ELSE IF IsNeg(v.i) THEN ILe(MinOf(W), v.i)
    ELSE ULe(v.i, MaxOf(W))

\* the stored number of the integer Value v
Stored(v) == IF v.t = "Unsigned" THEN v.u ELSE v.i

\* C17: integer conversion is range-checked: for each integer target W (u32, u64,
\* usize, i8, i32, i64, isize), from_value of Unsigned(x) or Negative(x) returns
\* Some(x) exactly when the stored x lies in the range of W and None otherwise;
\* every non-integer Value returns None; nothing wraps or truncates.
C17_RangeChecked ==
    (stage = "converted" /\ target.k \in IntTargets)
        => LET expect == IF value.t \in {"Unsigned", "Negative"} /\ InRange(target.k, value)
                         THEN Some(Stored(value)) ELSE None
           IN conv = expect /\ convRef = expect

\* the Unsigned one above i32::MAX was refused by i32, while u32 accepts it
C17_Witness ==
    /\ stage = "converted"
    /\ target = Ty("i32")
    /\ value = Unsigned(<<0, 0, 0, 0, 128, 0, 0, 0>>)
    /\ conv = None
    /\ from_value(Ty("u32"), value) = Some(value.u)

\* C18: pair conversion: (K,V)::from_value(v) returns Some((k, val)) exactly when v
\* is a Map with exactly one entry whose key converts to K and whose value converts
\* to V; a Map with 0 or 2+ entries, a non-Map Value, or a failing key or value
\* conversion returns None.
C18_PairConversion ==
    (stage = "converted" /\ target.k = "Pair")
        => IF /\ value.t = "Map"
              /\ Len(value.map) = 1
              /\ from_value(target.key, value.map[1].key) # None
              /\ from_value(target.val, value.map[1].val) # None
           THEN conv = Some(<<from_value(target.key, value.map[1].key).some,
                              from_value(target.val, value.map[1].val).some>>)
           ELSE conv = None

\* a one-entry Map was converted to a pair
C18_Witness ==
    /\ stage = "converted"
    /\ target = PairOf(Ty("u64"), Ty("String"))
    /\ value = Map(<<KeyVal(Unsigned(U64(7)), Utf8String(Str_a))>>)
    /\ conv = Some(<<U64(7), Str_a>>)

\* the entries of the Map m, each wrapped as a one-entry Map
Singletons(m) == [j \in 1..Len(m) |-> Map(<<m[j]>>)]

\* the pairs (k, v) of the entries of m whose key converts to K and value to V
ConvertiblePairs(T, m) ==
    LET keep == SelectSeq(m, LAMBDA e : /\ from_value(T.key, e.key) # None
                                        /\ from_value(T.val, e.val) # None)
    IN [j \in 1..Len(keep) |->
          <<from_value(T.key, keep[j].key).some, from_value(T.val, keep[j].val).some>>]

\* C19: sequence from Map: converting a Value::Map to Vec<T> wraps each entry as a
\* one-entry Map and converts it as T, so for T = (K,V) the result is the list, in
\* map order, of exactly the entries whose key converts to K and whose value
\* converts to V (entries with equal keys all kept); the result is always Some.
C19_SequenceFromMap ==
    (stage = "converted" /\ value.t = "Map" /\ target.k = "Vec")
        => /\ conv = Some(ConvertibleSubsequence(target.elem, Singletons(value.map)))
           /\ target.elem.k = "Pair"
                 => conv = Some(ConvertiblePairs(target.elem, value.map))

\* a Map of two entries with the same key became a Vec of two pairs
C19_Witness ==
    /\ stage = "converted"
    /\ value.t = "Map"
    /\ target = VecOf(PairOf(Ty("u64"), Ty("String")))
    /\ Len(value.map) = 2
    /\ value.map[1].key = value.map[2].key
    /\ conv = Some(<<<<U64(7), Str_a>>, <<U64(7), Str_a>>>>)

\* the header the rule gives a string, array or map of major type mj and of length
\* or count n: the leading byte, then the length in 0, 1, 2 or 4 big-endian bytes,
\* and above 2^32-1 the minor 27 with a 4-byte field
HeaderRule(n, mj) ==
    IF ULe(n, U64(23)) THEN <<mj * 32 + n[8]>>
    ELSE IF ULe(n, U64(255)) THEN <<mj * 32 + 24>> \o SubSeq(n, 8, 8)
    ELSE IF ULe(n, U16_MAX) THEN <<mj * 32 + 25>> \o SubSeq(n, 7, 8)
    ELSE IF ULe(n, U32_MAX) THEN <<mj * 32 + 26>> \o SubSeq(n, 5, 8)
    ELSE <<mj * 32 + 27>> \o SubSeq(n, 5, 8)

\* the length or count of the aggregate v
ContentLen(v) ==
    CASE v.t = "ByteString" -> Len(v.bytes)
      [] v.t = "Utf8String" -> Len(v.str)
      [] v.t = "Array" -> Len(v.arr)
      [] v.t = "Map" -> Len(v.map)

\* C20: aggregate header encoding: for a byte string, text string, array or map of
\* length or count n the encoder emits the leading byte (major << 5 | minor) and the
\* big-endian length field: no byte for n <= 23, 1 byte (minor 24) for 24..255, 2
\* bytes (minor 25) for 256..65535, 4 bytes (minor 26) for 65536..2^32-1, and a
\* 4-byte field with minor 27 above that.
C20_AggregateHeader ==
    /\ stage = "header" => wire = HeaderRule(header.len, header.item_code)
    /\ (stage = "encoded" /\ origin = "value" /\ IsAggregate(value))
          => LET h == HeaderRule(U64(ContentLen(value)), major(value)) IN
             /\ Len(wire) >= Len(h)
             /\ SubSeq(wire, 1, Len(h)) = h

\* the encoding the rule gives the simple value x (none is stated for the reserved
\* codes 20 .. 31)
SimpleRule(x) ==
    CASE x.s = "False" -> <<244>>
      [] x.s = "True" -> <<245>>
      [] x.s = "Null" -> <<246>>
      [] x.s = "Undefined" -> <<247>>
      [] x.s = "Unassigned" -> IF x.code < 20 THEN <<7 * 32 + x.code>> ELSE <<248, x.code>>

\* a simple value the encoding rule covers
HasSimpleRule(v) ==
    /\ v.t = "Simple"
    /\ v.simple.s = "Unassigned" => (v.simple.code < 20 \/ v.simple.code > 31)

\* C21: simple value encoding: False/True/Null/Undefined encode to the single bytes
\* 0xF4/0xF5/0xF6/0xF7; Unassigned(x) with x < 20 encodes to the single byte
\* (7 << 5 | x); Unassigned(x) with x > 31 encodes to the two bytes [0xF8, x], so
\* that decode returns Simple::Unassigned(x) again.
C21_SimpleEncoding ==
    /\ (stage = "encoded" /\ origin = "value" /\ HasSimpleRule(value))
          => wire = SimpleRule(value.simple)
    /\ (stage = "decoded" /\ origin = "value" /\ HasSimpleRule(value))
          => (result.ok /\ result.val = value)

\* a simple value with a reserved code
IsReserved(v) ==
    v.t = "Simple" /\ v.simple.s = "Unassigned" /\ v.simple.code \in 20..31

\* the items of the Array or Map v in encoding order (a Map gives key, value, ...)
ItemsOf(v) ==
    IF v.t = "Array" THEN v.arr
    ELSE [j \in 1..(2 * Len(v.map)) |->
            IF j % 2 = 1 THEN v.map[(j + 1) \div 2].key ELSE v.map[j \div 2].val]

HoldsReserved(v) ==
    v.t \in {"Array", "Map"} /\ \E j \in 1..Len(ItemsOf(v)) : IsReserved(ItemsOf(v)[j])

\* C22: Simple::Unassigned(x) with 20 <= x <= 31 encodes to zero bytes, so an Array
\* or Map holding such a value is encoded with a declared count larger than the
\* number of items that follow it.
C22_ReservedEncodesToNothing ==
    /\ (stage = "encoded" /\ origin = "value" /\ IsReserved(value)) => wire = <<>>
    /\ (stage = "encoded" /\ origin = "value" /\ HoldsReserved(value))
          => LET present == SelectSeq(ItemsOf(value), LAMBDA e : ~IsReserved(e)) IN
             /\ wire = <<major(value) * 32 + ContentLen(value)>> \o EncodeItems(present)
             /\ Len(present) < Len(ItemsOf(value))

\* a three-item Array with a reserved simple value in the middle was encoded: the
\* header declares 3 items and 2 follow
C22_Witness ==
    /\ stage = "encoded"
    /\ origin = "value"
    /\ value = Array(<<Unsigned(U64(1)), Simple(Unassigned(31)), Utf8String(Str_a)>>)
    /\ wire = <<131, 1, 97, 97>>

\* the outcome the rule of the simple values gives the bytes w, whose leading byte
\* has major type 7 and a minor of at most 24
SimpleDecodeRule(w) ==
    LET mn == read_type(w[1]).minor IN
    CASE mn <= 19 -> OkAt(Simple(Unassigned(mn)), 2)
      [] mn = 20 -> OkAt(Simple(SimpleFalse), 2)
      [] mn = 21 -> OkAt(Simple(SimpleTrue), 2)
      [] mn = 22 -> OkAt(Simple(SimpleNull), 2)
      [] mn = 23 -> OkAt(Simple(SimpleUndefined), 2)
      [] mn = 24 ->
            IF Len(w) < 2 THEN ErrAt("InsufficientBytes", 2)
            ELSE IF w[2] < 32 THEN ErrAt("UnexpectedValue", 3)
            ELSE OkAt(Simple(Unassigned(w[2])), 3)

\* C23: simple value decoding (major 7, minor <= 24): minor 0 .. 19 yields
\* Unassigned(minor); minor 20/21/22/23 yields False/True/Null/Undefined; minor 24
\* reads one further byte y and yields Unassigned(y) when 32 <= y <= 255,
\* UnexpectedValue when y < 32, and InsufficientBytes when no byte is left.
C23_SimpleDecoding ==
    (/\ stage = "decoded"
     /\ wire # <<>>
     /\ read_type(wire[1]).major = 7
     /\ read_type(wire[1]).minor <= 24)
        => result = SimpleDecodeRule(wire)

\* the two-byte form of a simple value was decoded
C23_Witness ==
    /\ stage = "decoded"
    /\ origin = "bytes"
    /\ wire = <<248, 32>>
    /\ result = OkAt(Simple(Unassigned(32)), 3)

\* -1 - u for 0 <= u < 2^63, as a 64-bit two's complement pattern
Not64(u) == [j \in 1..8 |-> 255 - u[j]]

\* C24: negative integer decoding (major 1): the decoded Value is Negative(-1 - u),
\* the true mathematical value, where u is parsed by the unsigned rule; every
\* Negative the decoder produces is strictly less than 0, for every u in 0 .. 2^64-1.
C24_NegativeDecoding ==
    (stage = "decoded" /\ wire # <<>> /\ read_type(wire[1]).major = 1)
        => LET u == UnsignedRule(wire) IN
           IF u.ok
           THEN /\ result = OkAt(Negative(Not64(u.val.u)), u.pos)
                /\ IsNeg(result.val.i)
           ELSE result = u

\* the Value e is an integer in 0 .. 255
IsByte(e) ==
    /\ e.t \in {"Unsigned", "Negative"}
    /\ \A j \in 1..7 : Stored(e)[j] = 0

\* the elements of arr that are integers in 0 .. 255, as bytes, in their order
ByteSubsequence(arr) ==
    LET keep == SelectSeq(arr, IsByte) IN [j \in 1..Len(keep) |-> Stored(keep[j])[8]]

\* C25: byte-buffer conversion: Vec<u8>::from_value returns the payload unchanged
\* for a ByteString; for an Array it returns the subsequence, in order, of the
\* elements that are integers in 0 .. 255 (the others dropped); for every other
\* Value, Map included, it returns None.
C25_ByteBuffer ==
    (stage = "converted" /\ target = VecU8)
        => conv = CASE value.t = "ByteString" -> Some(value.bytes)
                    [] value.t = "Array" -> Some(ByteSubsequence(value.arr))
                    [] OTHER -> None

\* an Array of a byte and of an integer above 255 was converted to a byte buffer
C25_Witness ==
    /\ stage = "converted"
    /\ target = VecU8
    /\ value = Array(<<Unsigned(U64(1)), Unsigned(U64(300))>>)
    /\ conv = Some(<<1>>)

(* C26: the reverse conversion picks the variant by sign. For a signed      *)
(* native integer x of type i8, i32 or i64, x.to_value() is Negative(x)     *)
(* when x < 0 and Unsigned(x) when x >= 0, so a Negative built from a       *)
(* native integer holds a negative number, and i64::from_value and          *)
(* i64::from_ref of the result give Some(x).                                *)
SignedSources == {Ty("i8"), Ty("i32"), Ty("i64")}

C26_SignPicksVariant ==
    (origin = "native" /\ native.ty \in SignedSources)
        => /\ value.t = (IF IsNeg(native.x) THEN "Negative" ELSE "Unsigned")
           /\ Stored(value) = native.x
           /\ value.t = "Negative" => IsNeg(value.i)
           /\ (stage \in {"borrowed", "converted"} /\ target = Ty("i64"))
                 => convRef = Some(native.x)
           /\ (stage = "converted" /\ target = Ty("i64"))
                 => conv = Some(native.x)

C26_Witness ==
    /\ stage = "converted" /\ origin = "native" /\ target = Ty("i64")
    /\ native = [ty |-> Ty("i8"), x |-> I8_MIN]
    /\ value = Negative(I8_MIN)
    /\ conv = Some(I8_MIN)

\* the chunks of an indefinite-length string of the given major type, read from
\* pos on, hold one that is not a definite-length string of that major type
RECURSIVE HasForeignChunk(_, _, _)
HasForeignChunk(bytes, pos, mt) ==
    IF pos > Len(bytes) \/ bytes[pos] = 255 THEN FALSE
    ELSE LET c == read_type(bytes[pos]) IN
         IF c.major # mt \/ c.minor = 31 THEN TRUE
         ELSE IF c.minor < 24
              THEN HasForeignChunk(bytes, pos + 1 + c.minor, mt)
         ELSE IF c.minor = 24 /\ pos + 1 <= Len(bytes)
              THEN HasForeignChunk(bytes, pos + 2 + bytes[pos + 1], mt)
         ELSE FALSE

\* the input is an indefinite-length byte or text string
IsIndefiniteString(bytes) == bytes # <<>> /\ bytes[1] \in {95, 127}

(* C27: while an indefinite-length byte or text string is decoded, every    *)
(* chunk must be a definite-length string of the same major type as the     *)
(* enclosing string: a chunk whose leading byte has another major type, or  *)
(* minor 31, makes decode return an error, and its payload is not           *)
(* concatenated.                                                            *)
C27_ChunkMajorChecked ==
    (stage = "decoded" /\ IsIndefiniteString(wire)
        /\ HasForeignChunk(wire, 2, read_type(wire[1]).major))
        => IsDecodeError(result)

\* the cursor positions a call that starts at byte p of an input of n bytes may
\* end at: past the bytes it read, never behind p and never beyond the end
Forward(p, n) == (p + 1)..(n + 1)

(* C28: decode terminates on every finite byte sequence, whatever lengths   *)
(* and counts its headers declare: it returns Ok or Err, the cursor only    *)
(* moves forward (an item that starts at byte p ends past p), and a call on *)
(* n bytes reads at most n bytes (the cursor never passes the end).         *)
C28_TerminatesWithinInput ==
    stage = "decoded"
        => /\ result.ok \/ IsDecodeError(result)
           /\ result.pos \in Forward(0, Len(wire))
           /\ \A p \in 1..Len(wire) :
                 decode_element(wire, p).pos \in Forward(p, Len(wire))

\* a and b are the same variant with the same payload; Arrays and Maps are of the
\* same length with pairwise structurally equal entries in the same order
RECURSIVE Structural(_, _)
Structural(a, b) ==
    /\ a.t = b.t
    /\ CASE a.t = "Array" ->
               /\ Len(a.arr) = Len(b.arr)
               /\ \A j \in 1..Len(a.arr) : Structural(a.arr[j], b.arr[j])
         [] a.t = "Map" ->
               /\ Len(a.map) = Len(b.map)
               /\ \A j \in 1..Len(a.map) :
                     /\ Structural(a.map[j].key, b.map[j].key)
                     /\ Structural(a.map[j].val, b.map[j].val)
         [] OTHER -> a = b

(* C29: equality and hashing of Value agree, so that a Value can be a       *)
(* hash-map key: a == b exactly when a and b are structurally equal, every  *)
(* Value equals itself, and a == b implies that a and b feed identical data *)
(* to the hasher.                                                           *)
C29_EqHashAgree ==
    stage = "compared"
        => /\ cmp.eq <=> Structural(value, rhs)
           /\ rhs = value => cmp.eq
           /\ cmp.eq => cmp.lhs = cmp.rhs

\* the last index of a non-empty set of indices
LastOf(S) == CHOOSE j \in S : \A i \in S : i <= j

\* the entries of the Map pairs whose key equals (==) the key of entry j
EqualKeyed(pairs, j) == {i \in 1..Len(pairs) : value_eq(pairs[i].key, pairs[j].key)}

\* the hash map m holds, for every key of pairs that equals itself, a single entry
\* with an equal key, and that entry holds the value of the last such entry of pairs
CollapsedLastWins(m, pairs) ==
    /\ \A j \in 1..Len(pairs) :
          EqualKeyed(pairs, j) # {}
              => LET hits == {e \in m : value_eq(e[1], pairs[j].key)} IN
                 /\ Cardinality(hits) = 1
                 /\ \A e \in hits : e[2] = pairs[LastOf(EqualKeyed(pairs, j))].val
    /\ \A e \in m : \E j \in 1..Len(pairs) : e[1] = pairs[j].key

\* the entries of the Map pairs that convert under T and whose key converts to k
ConvertingTo(T, pairs, k) ==
    {j \in ConvertibleEntries(T, pairs) : from_value(T.key, pairs[j].key) = Some(k)}

\* the native map c holds, for each key, the converted value of the last
\* convertible entry of pairs whose key converts to that key
NativeLastWins(T, c, pairs) ==
    /\ c # None
    /\ \A j \in ConvertibleEntries(T, pairs) :
          from_value(T.key, pairs[j].key).some \in DOMAIN c.some
    /\ \A k \in DOMAIN c.some :
          /\ ConvertingTo(T, pairs, k) # {}
          /\ Some(c.some[k])
                = from_value(T.val, pairs[LastOf(ConvertingTo(T, pairs, k))].val)

\* the state part of C30
C30_Collapsed ==
    /\ (stage = "hashed" /\ value.t = "Map")
          => (hmap # None /\ CollapsedLastWins(hmap.some, value.map))
    /\ (stage \in {"borrowed", "converted"} /\ value.t = "Map"
          /\ target.k \in {"HashMap", "BTreeMap"})
          => NativeLastWins(target, convRef, value.map)
    /\ (stage = "converted" /\ value.t = "Map" /\ target.k \in {"HashMap", "BTreeMap"})
          => NativeLastWins(target, conv, value.map)

(* C30: duplicate keys collapse last-wins when a Map leaves the ordered     *)
(* model. For a Value::Map with several entries whose keys are equal (or    *)
(* convert to the same native key), get_hash_map and the HashMap / BTreeMap *)
(* conversions return a map with a single entry for that key, holding the   *)
(* value of the last such convertible entry in map order; get_hash_map and  *)
(* the conversions leave the source Value::Map unchanged.                   *)
C30_DuplicateKeysLastWins ==
    /\ []C30_Collapsed
    /\ [][stage' \in {"hashed", "borrowed", "converted"} => value' = value]_vars
====
